---- MODULE Spec2Model ----
(***************************************************************************)
(* A model of the Duosmium MCP server (src/src/server.ts): the record      *)
(* store, the handlers of the tools that take a tournament id, and the     *)
(* helpers they share (loadInterpreter, findTeam, tournamentTitle).        *)
(*                                                                         *)
(* The values the handlers read from the sciolyff Interpreter (team.rank,  *)
(* team.points, placing.place, placing.tie, ...) are computed by a library *)
(* that is not part of server.ts.  The model does not re-derive them: a    *)
(* record file that loads carries the Interpreter's result as data, and    *)
(* the initial states range over such results.  Strings that the code      *)
(* inspects character by character (team identifiers, school names) are    *)
(* sequences of one-character strings; an optional value (undefined in the *)
(* code) is a sequence of length 0 or 1.                                   *)
(***************************************************************************)
EXTENDS Integers, Sequences, FiniteSets, Bags

\* ------------------------------------------------------------------ bounds

\* Largest number of teams in a tournament record.
MaxTeams == 3

\* Largest limit argument of get_tournament_rankings (the smallest is -1).
MaxLimit == 2

\* The requests in flight at once (accepted, and not yet answered).
MaxInFlight == 2

\* ----------------------------------------------------------------- strings

\* The letters, in upper and in lower case.
UpperLetters ==
  <<"A", "B", "C", "D", "E", "F", "G", "H", "I", "J", "K", "L", "M",
    "N", "O", "P", "Q", "R", "S", "T", "U", "V", "W", "X", "Y", "Z">>
LowerLetters ==
  <<"a", "b", "c", "d", "e", "f", "g", "h", "i", "j", "k", "l", "m",
    "n", "o", "p", "q", "r", "s", "t", "u", "v", "w", "x", "y", "z">>

\* String.prototype.toLowerCase on one character, and on the tournament names,
\* which the model keeps in one piece.
LowerOf ==
  [c \in {UpperLetters[i] : i \in DOMAIN UpperLetters} |->
     LowerLetters[CHOOSE i \in DOMAIN UpperLetters : UpperLetters[i] = c]]
LowerChar(c) ==
  IF c \in DOMAIN LowerOf
  THEN LowerOf[c]
  ELSE CASE c = "Named" -> "named"
         [] c = "Other" -> "other"
         [] OTHER   -> c

\* String.prototype.toLowerCase.
ToLowerCase(s) == [i \in DOMAIN s |-> LowerChar(s[i])]

\* String.prototype.includes: sub occurs in s as a contiguous substring.
Includes(s, sub) ==
  \E i \in 0..(Len(s) - Len(sub)) : SubSeq(s, i + 1, i + Len(sub)) = sub

\* One decimal digit as a character.
DigitChar(d) ==
  CASE d = 0 -> "0" [] d = 1 -> "1" [] d = 2 -> "2" [] d = 3 -> "3"
    [] d = 4 -> "4" [] d = 5 -> "5" [] d = 6 -> "6" [] d = 7 -> "7"
    [] d = 8 -> "8" [] OTHER -> "9"

\* Number.prototype.toString for a natural number.
RECURSIVE NumToString(_)
NumToString(n) ==
  IF n < 10 THEN <<DigitChar(n)>>
  ELSE NumToString(n \div 10) \o <<DigitChar(n % 10)>>

\* An optional value: undefined is <<>>, a value v is <<v>>.
Undefined == <<>>
Some(v) == <<v>>
IsSome(m) == Len(m) > 0

\* JavaScript truthiness of an optional string (a name): undefined and "" are
\* falsy.
Truthy(m) == IsSome(m) /\ m[1] # ""

\* JavaScript truthiness of an optional character string (a school, a
\* location): undefined and the empty string are falsy.
TruthyChars(m) == IsSome(m) /\ Len(m[1]) > 0

\* ------------------------------------------------------------ the records

\* Tournament ids that requests name; each may or may not have a record file.
Ids == {"t1", "t2"}

\* An event name no record declares (the records declare E1 and E2).
NoSuchEvent == "E9"

\* School names, as character strings.
SchoolAb == <<"A", "b">>
SchoolB1 == <<"b", "1">>
Schools == {Undefined, Some(SchoolAb), Some(SchoolB1)}


\* Total points of a team.
PointValues == {40, 55}

\* The tournament section as the Interpreter exposes it (interpreter.tournament):
\* the fields tournamentTitle and the handlers read.
Meta(name, level, location, state) ==
  [name |-> name, level |-> level, location |-> location, state |-> state]

Levels == {"Nationals", "States", "Regionals", "Invitational", "Other"}
States == {"sCA", "nCA", "TX"}

Metas ==
  {Meta(Some("Named"), "Invitational", "MIT", "TX"),
   Meta(Some(""), "Regionals", "MIT", "TX")}
  \cup {Meta(Undefined, l, "MIT", s) : l \in Levels, s \in States}

DefaultMeta == Meta(Some("Named"), "Invitational", "MIT", "TX")
UnnamedMeta == Meta(Undefined, "Invitational", "MIT", "TX")

\* A team as the Interpreter exposes it (an element of interpreter.teams).
Team(number, school, rank, points, dq, exh) ==
  [number |-> number, school |-> school, location |-> Undefined,
   suffix |-> Undefined, rank |-> rank, points |-> points,
   disqualified |-> dq, exhibition |-> exh]

\* A placing as the Interpreter exposes it (an element of interpreter.placings);
\* team is p.team.number, event is p.event.name, place is undefined or a number
\* (0 is shown as DQ/NS).
Placing(team, event, place, tie, points, dropped) ==
  [team |-> team, event |-> event, place |-> place, tie |-> tie,
   points |-> points, dropped |-> dropped]

\* The result of new sciolyff.Interpreter(data): the fields the handlers read.
Interp(meta, teams, placings) ==
  [tournament |-> meta, teams |-> teams,
   events |-> <<[name |-> "E1"], [name |-> "E2"]>>, placings |-> placings]

\* Rank columns of a team list of length n.  The ranks are the Interpreter's:
\* the rank of a team is its position in the order of the ranks, or the rank of
\* the team before it.  The order of interpreter.teams is the Interpreter's
\* too: the columns are those in rank order and the same columns reversed.
RankSeqs(n) ==
  LET ascending == {r \in [1..n -> 1..n] :
                      /\ r[1] = 1
                      /\ \A i \in 2..n : r[i] = i \/ r[i] = r[i - 1]}
  IN  ascending \cup {[i \in 1..n |-> r[n + 1 - i]] : r \in ascending}

\* (disqualified, exhibition) columns of a team list of length n: at most one
\* team is disqualified or an exhibition team.
FlagSeqs(n) ==
  {[i \in 1..n |-> <<FALSE, FALSE>>]}
  \cup {[i \in 1..n |-> IF i = k THEN fl ELSE <<FALSE, FALSE>>] :
          k \in 1..n, fl \in {<<TRUE, FALSE>>, <<FALSE, TRUE>>}}

\* The school of the i-th team where the schools do not vary.
SchoolAt(i) == IF i % 2 = 1 THEN Some(SchoolAb) ELSE Some(SchoolB1)

\* Number columns of a team list of length n: the team numbers ascending
\* (1, 2, ..., 12) or descending.
NumberSeqs(n) ==
  LET up == [i \in 1..n |-> IF i = n THEN 12 ELSE i]
  IN  {up, [i \in 1..n |-> up[n + 1 - i]]}

\* Team lists that vary in numbers and schools.
RosterTeams ==
  UNION {
    {[i \in 1..n |-> Team(num[i], sch[i], i, 40, FALSE, FALSE)] :
       num \in NumberSeqs(n), sch \in [1..n -> Schools]} : n \in 1..MaxTeams}

\* Team lists that vary in ranks, points and status; the first team has 40
\* points.
ScoredTeams ==
  UNION {
    {[i \in 1..n |-> Team(i, SchoolAt(i), r[i], pts[i], fl[i][1], fl[i][2])] :
       r \in RankSeqs(n), pts \in {p \in [1..n -> PointValues] : p[1] = 40},
       fl \in FlagSeqs(n)} : n \in 1..MaxTeams}

\* The team list of the records that vary in something else.
PlainTeams == [i \in 1..MaxTeams |-> Team(i, SchoolAt(i), i, 40, FALSE, FALSE)]


\* A placing of team t: a plain one (place = points = the team's position), or
\* one that is tied, dropped, without a place or with place 0.
PlacingOf(t, e, choice) ==
  IF choice = "plain"
  THEN Placing(t, e, Some(t), FALSE, t, FALSE)
  ELSE Placing(t, e,
               CASE t % 3 = 0 -> Undefined
                 [] t % 3 = 1 -> Some(0)
                 [] OTHER     -> Some(t),
               t % 2 = 0, MaxTeams + 2, TRUE)

\* The placings of one team in E1 and E2, in the order of interpreter.placings
\* (the order of the record's Placings section, which need not be the order of
\* the event names).
TeamPlacings(t, choice) ==
  CASE choice = "none"    -> <<>>
    [] choice = "both"    -> <<PlacingOf(t, "E1", "plain"), PlacingOf(t, "E2", "plain")>>
    [] choice = "first"   -> <<PlacingOf(t, "E1", "plain")>>
    [] choice = "second"  -> <<PlacingOf(t, "E2", "special")>>
    [] choice = "swapped" -> <<PlacingOf(t, "E2", "plain"), PlacingOf(t, "E1", "special")>>
    [] OTHER              -> <<PlacingOf(t, "E1", "special"), PlacingOf(t, "E2", "plain")>>

RECURSIVE ConcatPlacings(_, _)
ConcatPlacings(c, n) ==
  IF n = 0 THEN <<>> ELSE ConcatPlacings(c, n - 1) \o TeamPlacings(n, c[n])

\* Placing lists of PlainTeams; the first team is the one whose placings may be
\* listed E2 first, and the teams after the second have both placings, the
\* second only, or none.
PlacingLists ==
  {ConcatPlacings(c, MaxTeams) :
     c \in {d \in [1..MaxTeams -> {"none", "both", "first", "second", "swapped", "mixed"}] :
              /\ \A t \in 2..MaxTeams : d[t] # "swapped"
              /\ \A t \in 3..MaxTeams : d[t] \in {"none", "both", "second"}}}

\* Every Interpreter result of the model.
Interps ==
  {Interp(m, <<PlainTeams[1]>>, <<>>) : m \in Metas}
  \cup {Interp(DefaultMeta, ts, <<>>) : ts \in RosterTeams}
  \cup {Interp(DefaultMeta, ts, <<>>) : ts \in ScoredTeams}
  \cup {Interp(DefaultMeta, PlainTeams, ps) : ps \in PlacingLists}

\* A record file <DUOSMIUM_PATH>/data/results/<id>.yaml: missing, unreadable,
\* not YAML, YAML the Interpreter rejects, or a record that loads.  data is what
\* yaml.load gives for the file (its sections as written: the teams have no
\* rank and no points), interp is what the Interpreter derives from it.
MissingFile == [status |-> "missing"]
OkFile(interp) ==
  [status |-> "ok",
   data |-> [Tournament |-> interp.tournament,
             Teams |-> [i \in DOMAIN interp.teams |->
                          [number |-> interp.teams[i].number,
                           school |-> interp.teams[i].school]]],
   interp |-> interp]
Files ==
  {MissingFile, [status |-> "unreadable"], [status |-> "badyaml"],
   [status |-> "badrep"]}
  \cup {OkFile(i) : i \in Interps}

\* The record of the second tournament where it exists.
OtherInterp ==
  Interp(Meta(Some("Other"), "States", "LA", "sCA"),
         <<[Team(7, Some(<<"c", "d">>), 1, 55, FALSE, FALSE)
              EXCEPT !.location = Some(<<"L">>), !.suffix = Some(<<"X">>)]>>,
         <<Placing(7, "E1", Some(1), FALSE, 1, FALSE)>>)

\* The record stores of the model.
Stores ==
  {[id \in Ids |-> IF id = "t1" THEN f1 ELSE f2] :
     f1 \in Files, f2 \in {MissingFile, OkFile(OtherInterp)}}

\* ------------------------------------------------------------ the helpers

\* An answer of a tool: a normal result whose content is one text (the template
\* tmpl filled with the values f), or a thrown McpError.
Text(tmpl, f) == [kind |-> "text", code |-> "", tmpl |-> tmpl, f |-> f]
McpError(code, prefix, f) == [kind |-> "error", code |-> code, tmpl |-> prefix, f |-> f]

\* fs.readFile, yaml.load and new Interpreter on the record file of an id: the
\* Interpreter, or the error thrown (code is error.code, "" where the error has
\* none).
LoadInterpreter(st, tournamentId) ==
  LET file == IF tournamentId \in DOMAIN st THEN st[tournamentId] ELSE MissingFile
  IN  CASE file.status = "ok" ->
             [ok |-> TRUE, interpreter |-> file.interp, data |-> file.data]
        [] file.status = "missing" ->
             [ok |-> FALSE, code |-> "ENOENT", message |-> "ENOENT: no such file or directory"]
        [] file.status = "unreadable" ->
             [ok |-> FALSE, code |-> "EACCES", message |-> "EACCES: permission denied"]
        [] file.status = "badyaml" ->
             [ok |-> FALSE, code |-> "", message |-> "YAMLException"]
        [] OTHER ->
             [ok |-> FALSE, code |-> "", message |-> "TypeError"]

\* The catch clause of a tool: ENOENT is answered as a normal text, any other
\* error is thrown as InternalError with the error's message.
CatchAlwaysThrows(prefix, tournamentId, error) ==
  McpError("InternalError", prefix, [message |-> error.message])

CatchError(prefix, tournamentId, error) ==
  IF error.code = "ENOENT"
  THEN Text("TournamentNotFound", [tournamentId |-> tournamentId])
  ELSE McpError("InternalError", prefix, [message |-> error.message])

\* The least element of a non-empty set of numbers.
MinOf(S) == CHOOSE x \in S : \A y \in S : x <= y

\* The predicate of findTeam.
TeamMatches(t, teamId) ==
  \/ NumToString(t.number) = teamId
  \/ /\ IsSome(t.school)
     /\ Includes(ToLowerCase(t.school[1]), ToLowerCase(teamId))

\* findTeam: the first team of interpreter.teams that matches, or undefined.
FindTeamOrFirst(interpreter, teamId) ==
  LET hits == {i \in DOMAIN interpreter.teams : TeamMatches(interpreter.teams[i], teamId)}
  IN  IF hits = {} THEN Some(interpreter.teams[1]) ELSE Some(interpreter.teams[MinOf(hits)])

\* The greatest element of a non-empty set of numbers.
MaxOf(S) == CHOOSE x \in S : \A y \in S : y <= x

FindTeamLast(interpreter, teamId) ==
  LET hits == {i \in DOMAIN interpreter.teams : TeamMatches(interpreter.teams[i], teamId)}
  IN  IF hits = {} THEN Undefined ELSE Some(interpreter.teams[MaxOf(hits)])

\* A team lookup in two stages: by number, then by school name.
FindTeamNumberFirst(interpreter, teamId) ==
  LET byNumber == {i \in DOMAIN interpreter.teams :
                     NumToString(interpreter.teams[i].number) = teamId}
      hits == {i \in DOMAIN interpreter.teams : TeamMatches(interpreter.teams[i], teamId)}
  IN  IF byNumber # {} THEN Some(interpreter.teams[MinOf(byNumber)])
      ELSE IF hits = {} THEN Undefined ELSE Some(interpreter.teams[MinOf(hits)])

FindTeam(interpreter, teamId) ==
  LET hits == {i \in DOMAIN interpreter.teams : TeamMatches(interpreter.teams[i], teamId)}
  IN  IF hits = {} THEN Undefined ELSE Some(interpreter.teams[MinOf(hits)])

\* tournamentTitle without expandStateName.
TournamentTitleRawState(tInfo) ==
  IF Truthy(tInfo.name) THEN Some(<<tInfo.name[1]>>)
  ELSE CASE tInfo.level = "Nationals" ->
              Some(<<"Science Olympiad National Tournament">>)
         [] tInfo.level = "States" ->
              Some(<<tInfo.state, " Science Olympiad State Tournament">>)
         [] tInfo.level = "Regionals" ->
              Some(<<tInfo.location, " Regional Tournament">>)
         [] tInfo.level = "Invitational" ->
              Some(<<tInfo.location, " Invitational">>)
         [] OTHER -> Undefined

\* expandStateName of tournamentTitle.
ExpandStateName(state) ==
  CASE state = "sCA" -> "SoCal"
    [] state = "nCA" -> "NorCal"
    [] OTHER         -> state

\* tournamentTitle: the title as the pieces of the template string, or
\* undefined.
TournamentTitle(tInfo) ==
  IF Truthy(tInfo.name) THEN Some(<<tInfo.name[1]>>)
  ELSE CASE tInfo.level = "Nationals" ->
              Some(<<"Science Olympiad National Tournament">>)
         [] tInfo.level = "States" ->
              Some(<<ExpandStateName(tInfo.state), " Science Olympiad State Tournament">>)
         [] tInfo.level = "Regionals" ->
              Some(<<tInfo.location, " Regional Tournament">>)
         [] tInfo.level = "Invitational" ->
              Some(<<tInfo.location, " Invitational">>)
         [] OTHER -> Undefined

\* interpreter.tournament.name || tournamentId, as the pieces of a string.
NameOrId(interpreter, tournamentId) ==
  IF Truthy(interpreter.tournament.name)
  THEN <<interpreter.tournament.name[1]>>
  ELSE <<tournamentId>>

\* The status list of a team: 'DQ' and 'Exhibition' as they apply.
StatusOf(team, dqWord) ==
  (IF team.disqualified THEN <<dqWord>> ELSE <<>>)
  \o (IF team.exhibition THEN <<"Exhibition">> ELSE <<>>)

\* placeText, tieText, points and dropped of a placement.
PlaceText(placement) ==
  IF placement.place = Some(0) THEN <<"DQ/NS">>
  ELSE IF IsSome(placement.place) /\ placement.place[1] # 0
       THEN NumToString(placement.place[1])
       ELSE <<"N/A">>
TieText(placement) == IF placement.tie THEN " (tie)" ELSE ""
PointsText(placement) ==
  IF placement.points # 0 THEN NumToString(placement.points) ELSE <<"N/A">>
DroppedText(placement) == IF placement.dropped THEN " [DROPPED]" ELSE ""

\* ------------------------------------------------------------ the tools

\* interpreter.placings.find(p => p.team.number === team.number &&
\* p.event.name === event): the first such placing, or undefined.
FindPlacementByEvent(interpreter, team, event) ==
  LET hits == {i \in DOMAIN interpreter.placings :
                 interpreter.placings[i].event = event}
  IN  IF hits = {} THEN Undefined ELSE Some(interpreter.placings[MinOf(hits)])

FindPlacement(interpreter, team, event) ==
  LET hits == {i \in DOMAIN interpreter.placings :
                 /\ interpreter.placings[i].team = team.number
                 /\ interpreter.placings[i].event = event}
  IN  IF hits = {} THEN Undefined ELSE Some(interpreter.placings[MinOf(hits)])

\* The tool get_team_placement; event is undefined when the caller omits it.
GetTeamPlacement(st, tournamentId, teamId, event) ==
  LET loaded == LoadInterpreter(st, tournamentId)
  IN  IF ~loaded.ok
      THEN CatchError("Failed to get team placement", tournamentId, loaded)
      ELSE
        LET interpreter == loaded.interpreter
            found == FindTeam(interpreter, teamId)
        IN  IF ~IsSome(found)
            THEN Text("TeamNotFound", [teamId |-> teamId, tournamentId |-> tournamentId])
            ELSE
              LET team == found[1]
              IN  IF ~Truthy(event)
                  THEN Text("Overall",
                            [school |-> team.school, number |-> team.number,
                             rank |-> team.rank, points |-> team.points,
                             tournament |-> NameOrId(interpreter, tournamentId),
                             disqualified |-> IF team.disqualified THEN "Yes" ELSE "No",
                             exhibition |-> IF team.exhibition THEN "Yes" ELSE "No"])
                  ELSE
                    LET placement == FindPlacement(interpreter, team, event[1])
                    IN  IF ~IsSome(placement)
                        THEN Text("NoPlacement",
                                  [school |-> team.school, number |-> team.number,
                                   event |-> event[1]])
                        ELSE Text("Placement",
                                  [school |-> team.school, number |-> team.number,
                                   event |-> event[1],
                                   placeText |-> PlaceText(placement[1]),
                                   tieText |-> TieText(placement[1]),
                                   points |-> PointsText(placement[1]),
                                   tournament |-> NameOrId(interpreter, tournamentId)])

\* limit && limit > 0 ? teams.slice(0, limit) : teams; limit is undefined when
\* the caller omits it.
LimitTeamsShort(teams, limit) ==
  IF IsSome(limit) /\ limit[1] # 0 /\ limit[1] > 0
  THEN SubSeq(teams, 1, IF limit[1] - 1 < Len(teams) THEN limit[1] - 1 ELSE Len(teams))
  ELSE teams

LimitTeams(teams, limit) ==
  IF IsSome(limit) /\ limit[1] # 0 /\ limit[1] > 0
  THEN SubSeq(teams, 1, IF limit[1] < Len(teams) THEN limit[1] ELSE Len(teams))
  ELSE teams

\* One line of the rankings: `${team.rank}. ${team.school} (#${team.number}) -
\* ${team.points} points${statusText}`; index is the map callback's index.
RankingLine(team, index) ==
  [rank |-> team.rank, school |-> team.school, number |-> team.number,
   points |-> team.points, status |-> StatusOf(team, "DQ")]

\* The tool get_tournament_rankings.
GetTournamentRankings(st, tournamentId, limit) ==
  LET loaded == LoadInterpreter(st, tournamentId)
  IN  IF ~loaded.ok
      THEN CatchError("Failed to get tournament rankings", tournamentId, loaded)
      ELSE
        LET interpreter == loaded.interpreter
            teams == LimitTeams(interpreter.teams, limit)
        IN  Text("Rankings",
                 [tournament |-> NameOrId(interpreter, tournamentId),
                  totalTeams |-> Len(interpreter.teams),
                  rankings |-> [i \in DOMAIN teams |-> RankingLine(teams[i], i - 1)]])

\* The tool get_tournament_info.
GetTournamentInfo(st, tournamentId) ==
  LET loaded == LoadInterpreter(st, tournamentId)
  IN  IF ~loaded.ok
      THEN CatchError("Failed to get tournament info", tournamentId, loaded)
      ELSE
        LET interpreter == loaded.interpreter
            teams == [i \in DOMAIN interpreter.teams |->
                        [school |-> interpreter.teams[i].school,
                         number |-> interpreter.teams[i].number]]
            events == [i \in DOMAIN interpreter.events |-> interpreter.events[i].name]
        IN  Text("Info",
                 [tournament |-> NameOrId(interpreter, tournamentId),
                  teamCount |-> Len(teams), teams |-> teams,
                  eventCount |-> Len(events), events |-> events])

\* One line of get_tournament_teams: the parts joined by a space.
TeamDetails(team) ==
  [number |-> team.number, school |-> team.school,
   location |-> IF TruthyChars(team.location) THEN team.location ELSE Undefined,
   suffix |-> IF TruthyChars(team.suffix) THEN team.suffix ELSE Undefined,
   status |-> StatusOf(team, "DQ")]

\* The tool get_tournament_teams.
GetTournamentTeams(st, tournamentId) ==
  LET loaded == LoadInterpreter(st, tournamentId)
  IN  IF ~loaded.ok
      THEN CatchError("Failed to get tournament teams", tournamentId, loaded)
      ELSE
        LET interpreter == loaded.interpreter
        IN  Text("Teams",
                 [tournament |-> NameOrId(interpreter, tournamentId),
                  totalTeams |-> Len(interpreter.teams),
                  teams |-> [i \in DOMAIN interpreter.teams |->
                               TeamDetails(interpreter.teams[i])]])

\* One line of get_team_all_placements without the dropped flag.
PlacementDetailsUnflagged(placement) ==
  [event |-> placement.event, placeText |-> PlaceText(placement),
   tieText |-> TieText(placement), points |-> PointsText(placement),
   dropped |-> ""]

\* One line of get_team_all_placements.
PlacementDetails(placement) ==
  [event |-> placement.event, placeText |-> PlaceText(placement),
   tieText |-> TieText(placement), points |-> PointsText(placement),
   dropped |-> DroppedText(placement)]

\* The tool get_team_all_placements.
GetTeamAllPlacements(st, tournamentId, teamId) ==
  LET loaded == LoadInterpreter(st, tournamentId)
  IN  IF ~loaded.ok
      THEN CatchError("Failed to get team all placements", tournamentId, loaded)
      ELSE
        LET interpreter == loaded.interpreter
            found == FindTeam(interpreter, teamId)
        IN  IF ~IsSome(found)
            THEN Text("TeamNotFound", [teamId |-> teamId, tournamentId |-> tournamentId])
            ELSE
              LET team == found[1]
                  teamPlacements ==
                    SelectSeq(interpreter.placings, LAMBDA p : p.team = team.number)
              IN  IF Len(teamPlacements) = 0
                  THEN Text("NoPlacements",
                            [school |-> team.school, number |-> team.number])
                  ELSE Text("AllPlacements",
                            [school |-> team.school, number |-> team.number,
                             teamInfo |-> (IF TruthyChars(team.location)
                                           THEN team.location ELSE <<>>)
                                          \o (IF TruthyChars(team.suffix)
                                              THEN team.suffix ELSE <<>>),
                             rank |-> team.rank, points |-> team.points,
                             status |-> StatusOf(team, "Disqualified"),
                             tournament |-> NameOrId(interpreter, tournamentId),
                             count |-> Len(teamPlacements),
                             placements |-> [i \in DOMAIN teamPlacements |->
                                               PlacementDetails(teamPlacements[i])]])

\* fetch with the Interpreter's result as its text.
FetchDerived(st, id) ==
  LET loaded == LoadInterpreter(st, id)
  IN  IF ~loaded.ok
      THEN CatchError("Failed to fetch tournament data", id, loaded)
      ELSE Text("Json",
                [id |-> id, title |-> TournamentTitle(loaded.interpreter.tournament),
                 text |-> [Tournament |-> loaded.interpreter.tournament,
                           Teams |-> loaded.interpreter.teams],
                 url |-> <<"https://www.duosmium.org/results/", id>>])

\* The tool fetch: the JSON object {id, title, text, url}; JSON.stringify leaves
\* out a title that is undefined.
Fetch(st, id) ==
  LET loaded == LoadInterpreter(st, id)
  IN  IF ~loaded.ok
      THEN CatchError("Failed to fetch tournament data", id, loaded)
      ELSE Text("Json",
                [id |-> id, title |-> TournamentTitle(loaded.interpreter.tournament),
                 text |-> loaded.data,
                 url |-> <<"https://www.duosmium.org/results/", id>>])

\* -------------------------------------------------------------- the search

\* The default limits of the two search tools.
DefaultCatalogLimit == 20
DefaultCorpusLimit == 10

\* The thresholds given to Fuse, in tenths (0.3 and 0.4).
CatalogThreshold == 3
CorpusThreshold == 4

WordTeam == <<"t", "e", "a", "m">>
WordSchool == <<"s", "c", "h", "o", "o", "l">>
Space == <<" ">>

\* The words of a string: its maximal pieces without a space.
RECURSIVE Words(_)
Words(s) ==
  IF s = <<>> THEN <<>>
  ELSE LET spaces == {i \in DOMAIN s : s[i] = " "}
           k == IF spaces = {} THEN Len(s) + 1 ELSE MinOf(spaces)
           head == SubSeq(s, 1, k - 1)
       IN  (IF head = <<>> THEN <<>> ELSE <<head>>)
           \o Words(SubSeq(s, k + 1, Len(s)))

\* Words put together again, one space between two.
RECURSIVE JoinWords(_)
JoinWords(ws) ==
  IF ws = <<>> THEN <<>>
  ELSE IF Len(ws) = 1 THEN ws[1]
  ELSE ws[1] \o Space \o JoinWords(Tail(ws))

\* The query in lower case, 'team' left as it is.
LowerCaseOnly(query) == ToLowerCase(query)

\* query.toLowerCase().replace(/\bteam\b/g, 'school').  The queries of the model
\* are words of letters and digits with one space between two, where \bteam\b
\* matches exactly the words 'team'.
NormalizeQuery(query) ==
  LET ws == Words(ToLowerCase(query))
  IN  JoinWords([i \in DOMAIN ws |-> IF ws[i] = WordTeam THEN WordSchool ELSE ws[i]])

\* Array.prototype.slice(0, limit): a negative limit counts from the end.
\* A cut that takes a negative limit for its magnitude.
SliceMagnitude(seq, limit) ==
  LET n == IF limit < 0 THEN 0 - limit ELSE limit
  IN  SubSeq(seq, 1, IF n > Len(seq) THEN Len(seq) ELSE n)

Slice(seq, limit) ==
  LET n == Len(seq)
      end == IF limit < 0
             THEN (IF n + limit < 0 THEN 0 ELSE n + limit)
             ELSE (IF limit > n THEN n ELSE limit)
  IN  SubSeq(seq, 1, end)

\* A list of scored results ordered by score ascending, results of equal score
\* in their order in the list: results.sort((a, b) => (a.score || 0) -
\* (b.score || 0)), and the order in which Fuse returns its results.
RECURSIVE SortByScore(_)
SortByScore(results) ==
  IF results = <<>> THEN <<>>
  ELSE LET first == Head(results)
           rest == SortByScore(Tail(results))
           later == {i \in DOMAIN rest : rest[i].score >= first.score}
           k == IF later = {} THEN Len(rest) + 1 ELSE MinOf(later)
       IN  SubSeq(rest, 1, k - 1) \o <<first>> \o SubSeq(rest, k, Len(rest))

\* Fuse.js is a library outside src/.  The model takes from it the form of its
\* result and nothing else: new Fuse(list, {threshold, includeScore: true})
\* .search(pattern) gives some of the entries of the list, each with a score
\* from 0 (the best) up to the threshold, ordered by score and, for equal
\* scores, by index.  Which entries it gives for a pattern, and with which
\* scores, is decided inside the library: every choice is a result the model
\* allows.  Scores are in tenths and take the two ends of their range.
FuseScores(threshold) == {0, threshold}

\* The result in which the entries of the indexes matched are given with the
\* scores score.
FuseResult(list, matched, score) ==
  LET indexes == SelectSeq([i \in DOMAIN list |-> i], LAMBDA i : i \in matched)
  IN  SortByScore([k \in DOMAIN indexes |->
                     [item |-> list[indexes[k]], score |-> score[indexes[k]]]])

\* Every result fuse.search can give over the list.
FuseSearch(list, threshold) ==
  UNION {{FuseResult(list, matched, score) : score \in [matched -> FuseScores(threshold)]} :
           matched \in SUBSET DOMAIN list}

\* ---- catalog search (the server whose search reads duosmium.org)

\* What fetch gives for a URL: a response with a status, or a rejection.
Response(status) == [rejected |-> FALSE, status |-> status]
Rejected == [rejected |-> TRUE, status |-> 0]
Responses == {Response(200), Response(500), Rejected}

\* What await tournamentsResponse.json() gives for a response that is OK: the
\* list of tournaments.json, a JSON value that is no list, or a rejection (the
\* body is not JSON).
JsonBodies == {"list", "notlist", "rejects"}

\* What await schoolsResponse.text() gives: the text of schools.csv, or a
\* rejection (the body cannot be read to its end).
TextBodies == {"text", "rejects"}

\* tournaments.json: the fields of an entry that the search reads.
TournamentsJson ==
  << [title |-> Some(<<"A", "b", " ", "i", "n", "v">>), filename |-> <<"t1">>,
      location |-> <<"l", "a">>, keywords |-> <<>>],
     [title |-> Undefined, filename |-> <<"t2">>,
      location |-> <<>>, keywords |-> WordSchool] >>

\* schools.csv: the parts of its non-blank lines (name, city, state).
SchoolsCsv ==
  << <<SchoolAb \o Space \o WordSchool, <<"l", "a">>, <<"T", "X">>>>,
     << <<>>, <<"l", "a">>, <<>> >>,
     << <<"c", "d">> \o Space \o WordSchool, <<>>, <<>> >> >>


\* Promise.all of the two fetches and the two ok tests: the message of the
\* error thrown, or undefined.
FetchErrorTournamentsOnly(tournamentsResponse, schoolsResponse) ==
  IF tournamentsResponse.rejected THEN Some(<<"fetch failed">>)
  ELSE IF tournamentsResponse.status \notin 200..299
       THEN Some(<<"Failed to fetch tournaments: ", tournamentsResponse.status>>)
       ELSE Undefined

FetchError(tournamentsResponse, schoolsResponse) ==
  IF tournamentsResponse.rejected \/ schoolsResponse.rejected
  THEN Some(<<"fetch failed">>)
  ELSE IF tournamentsResponse.status \notin 200..299
       THEN Some(<<"Failed to fetch tournaments: ", tournamentsResponse.status>>)
       ELSE IF schoolsResponse.status \notin 200..299
            THEN Some(<<"Failed to fetch schools: ", schoolsResponse.status>>)
            ELSE Undefined

\* searchData: the tournament entries, then the school entries (a line without
\* a school name has an index and no entry).
CatalogSearchData(type) ==
  LET tournamentEntry(t) ==
        LET name == IF TruthyChars(t.title) THEN t.title[1] ELSE t.filename
        IN  [type |-> "tournament", name |-> name, id |-> t.filename,
             searchText |-> ToLowerCase(name \o Space \o t.location \o Space
                                        \o Space \o Space \o t.filename
                                        \o Space \o t.keywords)]
      schoolEntry(index) ==
        LET parts == SchoolsCsv[index + 1]
        IN  [type |-> "school", name |-> parts[1],
             id |-> <<"school-">> \o NumToString(index),
             searchText |-> ToLowerCase(parts[1] \o Space \o parts[2] \o Space
                                        \o parts[3] \o Space \o WordTeam)]
      named == SelectSeq([i \in DOMAIN SchoolsCsv |-> i - 1],
                         LAMBDA index : SchoolsCsv[index + 1][1] # <<>>)
  IN  (IF type \in {"tournament", "all"}
       THEN [i \in DOMAIN TournamentsJson |-> tournamentEntry(TournamentsJson[i])]
       ELSE <<>>)
      \o (IF type \in {"school", "all"}
          THEN [i \in DOMAIN named |-> schoolEntry(named[i])]
          ELSE <<>>)

\* The message of the error thrown after the two bodies are there, or
\* undefined: json() or text() has rejected, or tournaments.forEach is called
\* on a value that is no list (when the type asks for tournaments).
BodyError(json, text, type) ==
  IF json = "rejects" THEN Some(<<"Unexpected token in JSON">>)
  ELSE IF text = "rejects" THEN Some(<<"terminated">>)
  ELSE IF json = "notlist" /\ type \in {"tournament", "all"}
       THEN Some(<<"tournaments.forEach is not a function">>)
       ELSE Undefined

\* searchResults of the catalog search: fuse.search(normalizedQuery).slice(0, limit).
CatalogResults(fuseResults, limit) ==
  Slice(fuseResults, IF IsSome(limit) THEN limit[1] ELSE DefaultCatalogLimit)

\* The catch of the catalog search.
SearchFailed(message) ==
  McpError("InternalError", "Search failed", [message |-> message])

\* The answer of the catalog search after the cut.  A result is printed with
\* its type, name and id, and with its score when that is not 0.
SearchCatalog(query, type, searchResults) ==
  IF Len(searchResults) = 0
  THEN Text("NoneFound", [type |-> type, query |-> query])
  ELSE Text("Found",
            [query |-> query, count |-> Len(searchResults),
             results |-> [i \in DOMAIN searchResults |->
                            [type |-> searchResults[i].item.type,
                             name |-> searchResults[i].item.name,
                             id |-> searchResults[i].item.id,
                             score |-> IF searchResults[i].score # 0
                                       THEN Some(searchResults[i].score)
                                       ELSE Undefined]]])

\* ---- the results directory, list_tournaments and the resources

\* A file name: the id, which the model keeps whole, then the rest letter by
\* letter.
DotYaml == <<".", "y", "a", "m", "l">>
YamlName(id) == <<id>> \o DotYaml
NotesTxt == <<"notes", ".", "t", "x", "t">>
T0Yml == <<"t0", ".", "y", "m", "l">>
T1YamlBak == YamlName("t1") \o <<".", "b", "a", "k">>
T3yaml == <<"t3", "y", "a", "m", "l">>

\* The directory <DUOSMIUM_PATH>/data/results: whether it can be read, and the
\* names it may hold in the order readdir gives them; the name of a record is
\* there while the record's file exists.
Dir(readable, entries) == [readable |-> readable, entries |-> entries]
DefaultDir == Dir(TRUE, <<YamlName("t1"), YamlName("t2")>>)
MixedDir ==
  Dir(TRUE, <<YamlName("t2"), NotesTxt, T1YamlBak, YamlName("t1"), T0Yml, T3yaml>>)
UnreadableDir == Dir(FALSE, <<>>)
Dirs == {DefaultDir, MixedDir, UnreadableDir}

\* fs.readdir: the names, or the error thrown.
ReadDir(st, dir) ==
  IF ~dir.readable
  THEN [ok |-> FALSE, code |-> "EACCES", message |-> "EACCES: permission denied"]
  ELSE [ok |-> TRUE,
        files |-> SelectSeq(dir.entries,
                            LAMBDA name : \A id \in DOMAIN st :
                                            name = YamlName(id) => st[id].status # "missing")]

\* file.endsWith(suffix).
EndsWith(file, suffix) ==
  /\ Len(file) >= Len(suffix)
  /\ SubSeq(file, Len(file) - Len(suffix) + 1, Len(file)) = suffix

\* Array.sort() on the ids: the order of the strings by code units, which for
\* the ids of the model is the order of IdOrder.
IdOrder == <<"t0", "t1", "t2", "t3", "t9">>
IdRank(id) == CHOOSE i \in DOMAIN IdOrder : IdOrder[i] = id
RECURSIVE SortIds(_)
SortIds(ids) ==
  IF ids = <<>> THEN <<>>
  ELSE LET rest == SortIds(Tail(ids))
           smaller == SelectSeq(rest, LAMBDA id : IdRank(id) < IdRank(Head(ids)))
           others == SelectSeq(rest, LAMBDA id : IdRank(id) >= IdRank(Head(ids)))
       IN  smaller \o <<Head(ids)>> \o others

\* getAvailableTournaments with the names in the order of readdir.
GetAvailableTournamentsUnsorted(st, dir) ==
  LET listing == ReadDir(st, dir)
  IN  IF ~listing.ok THEN <<>>
      ELSE LET yamls == SelectSeq(listing.files, LAMBDA file : EndsWith(file, DotYaml))
           IN  [i \in DOMAIN yamls |-> Slice(yamls[i], 0 - 5)[1]]

\* getAvailableTournaments: the names that end in '.yaml', without their last
\* five characters, sorted; no id when readdir fails.  (What is left of a name
\* is its id, one token of the model.)
GetAvailableTournaments(st, dir) ==
  LET listing == ReadDir(st, dir)
  IN  IF ~listing.ok THEN <<>>
      ELSE LET yamls == SelectSeq(listing.files, LAMBDA file : EndsWith(file, DotYaml))
           IN  SortIds([i \in DOMAIN yamls |-> Slice(yamls[i], 0 - 5)[1]])

\* list_tournaments with a getAvailableTournaments that lets the error of
\* readdir through to the catch clause of the tool.
ListTournamentsThrowing(st, dir) ==
  LET listing == ReadDir(st, dir)
      tournaments == GetAvailableTournaments(st, dir)
  IN  IF ~listing.ok
      THEN McpError("InternalError", "Failed to list tournaments",
                    [message |-> listing.message])
      ELSE Text("AvailableTournaments",
                [count |-> Len(tournaments), tournaments |-> tournaments])

\* The tool list_tournaments: 'Available Tournaments (<count>):' and the ids,
\* one a line.
ListTournaments(st, dir) ==
  LET tournaments == GetAvailableTournaments(st, dir)
  IN  Text("AvailableTournaments",
           [count |-> Len(tournaments), tournaments |-> tournaments])

\* The resources: the URI of a record is the prefix and the id.
ResultsPrefix == "duosmium://results/"
YamlMime == "application/x-yaml"
ResourceTemplate ==
  [uri |-> <<ResultsPrefix, "{id}">>, name |-> <<"Science Olympiad Results">>,
   description |-> <<"Access Science Olympiad results by ID. Replace {id} with the specific result identifier.">>,
   mimeType |-> YamlMime]
ResourceOf(tournamentId) ==
  [uri |-> <<ResultsPrefix, tournamentId>>,
   name |-> <<"Science Olympiad Results - ", tournamentId>>,
   description |-> <<"Results for tournament: ", tournamentId>>,
   mimeType |-> YamlMime]

\* The handler of resources/list: the template entry, then one resource for
\* each available tournament.
ListResources(st, dir) ==
  LET availableTournaments == GetAvailableTournaments(st, dir)
  IN  [kind |-> "resources", code |-> "", tmpl |-> "Resources",
       f |-> [resources |-> <<ResourceTemplate>>
                            \o [i \in DOMAIN availableTournaments |->
                                  ResourceOf(availableTournaments[i])]]]

\* The text of a record file: as written (with its own comments, order and
\* layout) or as a serializer would write it, whether it is YAML, and the
\* data it holds.
Content(file) ==
  [written |-> TRUE, parses |-> file.status # "badyaml",
   data |-> IF file.status = "ok" THEN file.data
            ELSE [Tournament |-> DefaultMeta, Teams |-> <<>>]]

\* fs.readFile(filePath, 'utf-8'): the text, or the error thrown.
ReadFile(st, id) ==
  LET file == IF id \in DOMAIN st THEN st[id] ELSE MissingFile
  IN  CASE file.status = "missing" ->
             [ok |-> FALSE, code |-> "ENOENT", message |-> "ENOENT: no such file or directory"]
        [] file.status = "unreadable" ->
             [ok |-> FALSE, code |-> "EACCES", message |-> "EACCES: permission denied"]
        [] OTHER -> [ok |-> TRUE, content |-> Content(file)]

\* A yaml.load that gives undefined for a text that is not YAML.
YamlLoadLenient(content) == [ok |-> TRUE, data |-> content.data]

\* yaml.load: the data, or the YAMLException thrown.
YamlLoad(content) ==
  IF content.parses THEN [ok |-> TRUE, data |-> content.data]
  ELSE [ok |-> FALSE, code |-> "", message |-> "YAMLException"]

\* The text a serializer writes for the data.
YamlDump(data) == [written |-> FALSE, parses |-> TRUE, data |-> data]

\* uri.startsWith(prefix) and uri.replace(prefix, '') on a URI given as its
\* parts; the id is what is left, '' when nothing is.
StartsWith(uri, prefix) == Len(uri) >= 1 /\ uri[1] = prefix
Replace(uri, prefix) ==
  IF \E i \in DOMAIN uri : uri[i] = prefix
  THEN LET first == MinOf({i \in DOMAIN uri : uri[i] = prefix})
       IN  SubSeq(uri, 1, first - 1) \o SubSeq(uri, first + 1, Len(uri))
  ELSE uri
IdOfUri(uri) ==
  LET id == Replace(uri, ResultsPrefix) IN IF id = <<>> THEN "" ELSE id[1]

\* The catch clause of the tools in the place of that of the resource read.
ResourceCatchAsTool(id, error) == CatchError("Failed to read resource", id, error)

\* The catch clause of the resource read: ENOENT is InvalidRequest 'Resource
\* not found: <id>', any other error InternalError.
ResourceCatch(id, error) ==
  IF error.code = "ENOENT"
  THEN McpError("InvalidRequest", "Resource not found", [id |-> id])
  ELSE McpError("InternalError", "Failed to read resource", [message |-> error.message])

\* The contents returned: the text under the URI asked for.
Contents(uri, content) ==
  [kind |-> "contents", code |-> "", tmpl |-> "Contents",
   f |-> [uri |-> uri, mimeType |-> YamlMime, text |-> content]]

\* The resource read returning the parsed data written out again.
ReadResourceDumped(st, uri) ==
  IF ~StartsWith(uri, ResultsPrefix)
  THEN [read |-> <<>>,
        answer |-> McpError("InvalidRequest",
                            "Invalid URI scheme. Expected duosmium://results/{id}", <<>>)]
  ELSE LET id == IdOfUri(uri)
           file == ReadFile(st, id)
           parsedYaml == IF file.ok THEN YamlLoad(file.content) ELSE file
       IN  [read |-> <<YamlName(id)>>,
            answer |-> IF ~file.ok THEN ResourceCatch(id, file)
                       ELSE IF ~parsedYaml.ok THEN ResourceCatch(id, parsedYaml)
                       ELSE Contents(uri, YamlDump(parsedYaml.data))]

\* The handler of resources/read: the answer, and the files it has read.
ReadResource(st, uri) ==
  IF ~StartsWith(uri, ResultsPrefix)
  THEN [read |-> <<>>,
        answer |-> McpError("InvalidRequest",
                            "Invalid URI scheme. Expected duosmium://results/{id}", <<>>)]
  ELSE LET id == IdOfUri(uri)
           file == ReadFile(st, id)
           parsedYaml == IF file.ok THEN YamlLoad(file.content) ELSE file
       IN  [read |-> <<YamlName(id)>>,
            answer |-> IF ~file.ok THEN ResourceCatch(id, file)
                       ELSE IF ~parsedYaml.ok THEN ResourceCatch(id, parsedYaml)
                       ELSE Contents(uri, file.content)]

\* ---- corpus search (the server whose search reads the record files)

\* The body of the loop over the tournaments: the entries one tournament adds
\* to allTournaments and allTeams; none when its record fails to load.
TryTournament(st, tournamentId, type) ==
  LET loaded == LoadInterpreter(st, tournamentId)
  IN  IF ~loaded.ok
      THEN [tournaments |-> <<>>, teams |-> <<>>]
      ELSE
        LET interpreter == loaded.interpreter
            tournamentName == NameOrId(interpreter, tournamentId)
            teamEntry(team) ==
              LET teamName == IF TruthyChars(team.school) THEN team.school[1] ELSE <<>>
                  location == IF TruthyChars(team.location) THEN team.location[1] ELSE <<>>
              IN  [type |-> "team",
                   id |-> <<tournamentId, ":">> \o NumToString(team.number),
                   name |-> teamName,
                   searchableText |->
                     ToLowerCase(teamName \o Space \o location \o Space
                                 \o NumToString(team.number) \o Space \o tournamentName)]
        IN  [tournaments |->
               IF type \in {"tournament", "both"}
               THEN <<[type |-> "tournament", id |-> <<tournamentId>>,
                       name |-> tournamentName,
                       searchableText |->
                         ToLowerCase(tournamentName \o Space \o <<tournamentId>>)]>>
               ELSE <<>>,
             teams |->
               IF type \in {"team", "both"}
               THEN [i \in DOMAIN interpreter.teams |-> teamEntry(interpreter.teams[i])]
               ELSE <<>>]

\* allTournaments and allTeams before the loop over the tournaments.
NothingCollected == [tournaments |-> <<>>, teams |-> <<>>]

\* A turn of the loop in which a record that fails to load empties what the
\* loop has collected.
CollectedOrEmptied(all, st, tournamentId, type) ==
  IF ~LoadInterpreter(st, tournamentId).ok
  THEN NothingCollected
  ELSE LET this == TryTournament(st, tournamentId, type)
       IN  [tournaments |-> all.tournaments \o this.tournaments,
            teams |-> all.teams \o this.teams]

\* allTournaments and allTeams after the turn of the loop for one id, with the
\* files as they are in that turn.
Collected(all, st, tournamentId, type) ==
  LET this == TryTournament(st, tournamentId, type)
  IN  [tournaments |-> all.tournaments \o this.tournaments,
       teams |-> all.teams \o this.teams]

\* results.sort(...) of the corpus search: the results of the search over the
\* tournaments, then those of the search over the teams, sorted by score.
CorpusRanked(tournamentResults, teamResults) ==
  SortByScore(tournamentResults \o teamResults)

\* sortedResults of the corpus search: the sorted results cut to the limit.
CorpusResults(ranked, limit) ==
  Slice(ranked, IF IsSome(limit) THEN limit[1] ELSE DefaultCorpusLimit)

\* The answer of the corpus search after the cut; a result is printed with its
\* type and id.
SearchCorpus(query, type, sortedResults) ==
  IF Len(sortedResults) = 0
  THEN Text("NoneFound", [type |-> type, query |-> query])
  ELSE Text("SearchResults",
            [query |-> query, count |-> Len(sortedResults),
             results |-> [i \in DOMAIN sortedResults |->
                            [type |-> sortedResults[i].item.type,
                             id |-> sortedResults[i].item.id]]])

\* ------------------------------------------------------- the state machine

\* server: which of the two servers of server.ts runs: the one whose search
\*   reads the catalog of duosmium.org, or the one whose search reads the
\*   record files.  The other handlers are the same in both.
\* store: the record files under <DUOSMIUM_PATH>/data/results, by id.
\* dir: the directory that holds the record files.
\* waiting: the number of requests the route has accepted and connected and
\*   whose handler has not yet come back from its first wait.
\* running: the searches that are between two of their waits, each with what
\*   it has so far (a bag: two searches can be at the same place).
\* last: the request whose handler has come back from its last wait, with its
\*   arguments and the answer on its way, or NoCall when no answer is on its
\*   way.
\* lastFetch: the most recent call of the tool fetch on the first record (a
\*   history of what the caller has seen; the server keeps nothing of it).
\* connected: whether this.server holds the transport of a request, which
\*   server.connect(transport) hands to it.
VARIABLES server, store, dir, waiting, running, last, lastFetch, connected

vars == <<server, store, dir, waiting, running, last, lastFetch, connected>>

\* The arguments of the requests.
TeamIds == {<<"1">>, <<"2">>, <<"1", "2">>, <<"B">>, <<"z">>, <<>>}
EventArgs == {Undefined, Some(""), Some("E1"), Some("E2"), Some(NoSuchEvent)}
LimitArgs == {Undefined} \cup {Some(n) : n \in (0 - 1)..MaxLimit}

\* The arguments with which the second record, which does not vary, is asked
\* for.
FewTeamIds == {<<"z">>, <<>>}
FewEventArgs == {Undefined, Some("E1")}
FewLimitArgs == {Undefined, Some(1)}

NoCall == [tool |-> "none"]

\* The query 'ab school'.
QueryAbSchool == <<"a", "b">> \o Space \o WordSchool

Init ==
  /\ server = "catalog"
  /\ store \in Stores
  /\ dir = DefaultDir
  /\ waiting = 0
  /\ last = NoCall
  /\ lastFetch = NoCall
  /\ running = EmptyBag
  /\ connected = FALSE

\* The names of the tools, as tools/list gives them.
ToolNames ==
  <<"get_team_placement", "get_tournament_rankings", "list_tournaments",
    "get_tournament_info", "get_tournament_teams", "get_team_all_placements",
    "search", "fetch">>

\* The route /mcp up to its first wait: a request comes in, whatever it asks
\* for, while others may be in flight; a new transport is made for it and
\* connected to this.server.  What the request asks for shows when its handler
\* comes back from a wait (the actions below).
RequestArrives ==
  /\ waiting + BagCardinality(running) + (IF last = NoCall THEN 0 ELSE 1) < MaxInFlight
  /\ waiting' = waiting + 1
  /\ connected' = TRUE
  /\ UNCHANGED <<server, store, dir, last, lastFetch, running>>

\* tools/list: reads nothing.
ListTools ==
  /\ waiting > 0
  /\ last = NoCall
  /\ last' = [tool |-> "tools/list",
              answer |-> [kind |-> "tools", code |-> "", tmpl |-> "Tools",
                          f |-> [tools |-> ToolNames]]]
  /\ waiting' = waiting - 1
  /\ UNCHANGED <<server, store, dir, lastFetch, connected, running>>

\* tools/call with a name that is no tool: MethodNotFound 'Unknown tool: <name>'.
CallUnknownTool ==
  /\ waiting > 0
  /\ last = NoCall
  /\ \E name \in {"", "get_team", "Fetch"} :
       last' = [tool |-> "unknown", name |-> name,
                answer |-> McpError("MethodNotFound", "Unknown tool", [name |-> name])]
  /\ waiting' = waiting - 1
  /\ UNCHANGED <<server, store, dir, lastFetch, connected, running>>

\* The catch clause of the route: transport.handleRequest throws (whether and
\* when it does is the transport's matter).  With no header sent yet the
\* request is answered 500 'Internal server error'; with the headers sent the
\* failure is logged, nothing more is sent and the request is over.
HandleRequestFails ==
  /\ waiting > 0
  /\ waiting' = waiting - 1
  /\ \E headersSent \in BOOLEAN :
       IF headersSent
       THEN last' = last
       ELSE /\ last = NoCall
            /\ last' = [tool |-> "route",
                        answer |-> [kind |-> "http", code |-> "500",
                                    tmpl |-> "Internal server error", f |-> <<>>]]
  /\ UNCHANGED <<server, store, dir, lastFetch, connected, running>>

CallGetTeamPlacement ==
  /\ waiting > 0
  /\ last = NoCall
  /\ \E id \in Ids, teamId \in TeamIds, event \in EventArgs :
       /\ id # "t1" => (teamId \in FewTeamIds /\ event \in FewEventArgs)
       /\ last' = [tool |-> "get_team_placement",
                   tournamentId |-> id, teamId |-> teamId, event |-> event,
                   answer |-> GetTeamPlacement(store, id, teamId, event)]
       /\ waiting' = waiting - 1
       /\ UNCHANGED <<server, store, dir, lastFetch, connected, running>>

CallGetTournamentRankings ==
  /\ waiting > 0
  /\ last = NoCall
  /\ \E id \in Ids, limit \in LimitArgs :
       /\ id # "t1" => limit \in FewLimitArgs
       /\ last' = [tool |-> "get_tournament_rankings",
                   tournamentId |-> id, limit |-> limit,
                   answer |-> GetTournamentRankings(store, id, limit)]
       /\ waiting' = waiting - 1
       /\ UNCHANGED <<server, store, dir, lastFetch, connected, running>>

\* get_tournament_info holding a record missing once fetch has found it
\* missing.
CallGetTournamentInfoCached ==
  /\ waiting > 0
  /\ last = NoCall
  /\ \E id \in Ids :
       /\ last' = [tool |-> "get_tournament_info", tournamentId |-> id,
                   answer |->
                     IF /\ lastFetch # NoCall
                        /\ lastFetch.tournamentId = id
                        /\ lastFetch.answer.tmpl = "TournamentNotFound"
                     THEN lastFetch.answer
                     ELSE GetTournamentInfo(store, id)]
       /\ waiting' = waiting - 1
       /\ UNCHANGED <<server, store, dir, lastFetch, connected, running>>

CallGetTournamentInfo ==
  /\ waiting > 0
  /\ last = NoCall
  /\ \E id \in Ids :
       /\ last' = [tool |-> "get_tournament_info", tournamentId |-> id,
                   answer |-> GetTournamentInfo(store, id)]
       /\ waiting' = waiting - 1
       /\ UNCHANGED <<server, store, dir, lastFetch, connected, running>>

CallGetTournamentTeams ==
  /\ waiting > 0
  /\ last = NoCall
  /\ \E id \in Ids :
       /\ last' = [tool |-> "get_tournament_teams", tournamentId |-> id,
                   answer |-> GetTournamentTeams(store, id)]
       /\ waiting' = waiting - 1
       /\ UNCHANGED <<server, store, dir, lastFetch, connected, running>>

CallGetTeamAllPlacements ==
  /\ waiting > 0
  /\ last = NoCall
  /\ \E id \in Ids, teamId \in TeamIds :
       /\ id # "t1" => teamId \in FewTeamIds
       /\ last' = [tool |-> "get_team_all_placements",
                   tournamentId |-> id, teamId |-> teamId,
                   answer |-> GetTeamAllPlacements(store, id, teamId)]
       /\ waiting' = waiting - 1
       /\ UNCHANGED <<server, store, dir, lastFetch, connected, running>>

CallFetch ==
  /\ waiting > 0
  /\ last = NoCall
  /\ \E id \in Ids :
       /\ last' = [tool |-> "fetch", tournamentId |-> id,
                   answer |-> Fetch(store, id)]
       /\ lastFetch' = IF id = "t1" THEN last' ELSE lastFetch
       /\ waiting' = waiting - 1
       /\ UNCHANGED <<server, store, dir, connected, running>>

\* The answer is sent on the response of its request; the handler's Interpreter
\* and answer are dropped, and the transport connected last stays with
\* this.server.
Respond ==
  /\ last # NoCall
  /\ last' = NoCall
  /\ UNCHANGED <<server, store, dir, waiting, running, lastFetch, connected>>

Next ==
  \/ RequestArrives
  \/ ListTools
  \/ CallUnknownTool
  \/ HandleRequestFails
  \/ CallGetTeamPlacement
  \/ CallGetTournamentRankings
  \/ CallGetTournamentInfo
  \/ CallGetTournamentTeams
  \/ CallGetTeamAllPlacements
  \/ CallFetch
  \/ Respond

Spec == Init /\ [][Next]_vars

\* ---- the search tools, on their own

\* The record of the second tournament in the searches: one team of 'cd school'.
SchoolInterp ==
  Interp(Meta(Some("Other"), "States", "LA", "sCA"),
         <<[Team(7, Some(<<"c", "d">> \o Space \o WordSchool), 1, 55, FALSE, FALSE)
              EXCEPT !.location = Some(<<"L">>)]>>,
         <<>>)

\* The files a record can be: t1 any kind of file, t2 missing or a record.
FilesOf(id) ==
  IF id = "t1"
  THEN {MissingFile, [status |-> "unreadable"], [status |-> "badyaml"],
        [status |-> "badrep"], OkFile(Interp(DefaultMeta, PlainTeams, <<>>)),
        OkFile(Interp(UnnamedMeta, <<PlainTeams[1]>>, <<>>))}
  ELSE {MissingFile, OkFile(SchoolInterp)}

FileStores ==
  {[id \in Ids |-> IF id = "t1" THEN f1 ELSE f2] :
     f1 \in FilesOf("t1"), f2 \in FilesOf("t2")}

\* The store where both records load.
FullSearchStore ==
  [id \in Ids |-> IF id = "t1" THEN OkFile(Interp(DefaultMeta, PlainTeams, <<>>))
                  ELSE OkFile(SchoolInterp)]

\* The files a record can be while the searches run: those of FilesOf with one
\* team in the first record.
SearchedFiles(id) ==
  IF id = "t1"
  THEN {MissingFile, [status |-> "badrep"],
        OkFile(Interp(UnnamedMeta, <<PlainTeams[1]>>, <<>>))}
  ELSE {MissingFile, OkFile(SchoolInterp)}

SearchedStores ==
  {[id \in Ids |-> IF id = "t1" THEN f1 ELSE f2] :
     f1 \in SearchedFiles("t1"), f2 \in SearchedFiles("t2")}

\* A record file is created, deleted or rewritten by whoever maintains the
\* data, at any time: also while a request waits for its read, between the
\* reads of a handler, or while an answer is on its way.
RecordBecomes(id, file) ==
  /\ file # store[id]
  /\ store' = [store EXCEPT ![id] = file]
  /\ UNCHANGED <<server, dir, waiting, running, last, lastFetch, connected>>

ChangeRecord == \E id \in Ids : \E file \in FilesOf(id) : RecordBecomes(id, file)

ChangeSearchedRecord ==
  \E id \in Ids : \E file \in SearchedFiles(id) : RecordBecomes(id, file)

\* The queries of the catalog search: 'ab school', 'Ab team', 'AB school' and
\* 'school'; and those of the corpus search.
Queries ==
  {QueryAbSchool, SchoolAb \o Space \o WordTeam, <<"A", "B">> \o Space \o WordSchool,
   WordSchool}
CorpusQueries == {QueryAbSchool, SchoolAb \o Space \o WordTeam}

\* The arguments of a search: every query with the defaults, and 'ab school'
\* with every type and every limit.
SearchArgs(queries, types) ==
  {[query |-> q, type |-> Undefined, limit |-> Undefined] : q \in queries}
  \cup {[query |-> QueryAbSchool, type |-> Some(t), limit |-> Undefined] : t \in types}
  \cup {[query |-> QueryAbSchool, type |-> Undefined, limit |-> l] : l \in LimitArgs}

CatalogArgs == SearchArgs(Queries, {"tournament", "school", "all"})
CorpusArgs == SearchArgs(CorpusQueries, {"team"})

SearchInit ==
  /\ server \in {"catalog", "corpus"}
  /\ store \in SearchedStores
  /\ dir \in {DefaultDir, UnreadableDir}
  /\ waiting = 0
  /\ running = EmptyBag
  /\ last = NoCall
  /\ lastFetch = NoCall
  /\ connected = FALSE

\* The pattern a search hands to fuse.search: the catalog search its
\* normalized query, the corpus search the query as it is.
SearchPattern(variant, query) ==
  IF variant = "catalog" THEN NormalizeQuery(query) ELSE query

\* A search that is between two waits comes back from one with h as its new
\* place, or with its answer.
Goes(h, after) == running' = (running (-) SetToBag({h})) (+) SetToBag({after})
Ends(h) == running' = running (-) SetToBag({h})

\* The call of the catalog search as it answers.  The query, the type and the
\* limit are the request's from its arrival; nothing that happens before the
\* answer depends on them, and the model draws them where the answer is made.
\* error is the message of what was thrown, fuseResults what fuse.search gave.
CatalogCall(a, tournamentsResponse, schoolsResponse, json, text, error, fuseResults) ==
  LET type == IF IsSome(a.type) THEN a.type[1] ELSE "all"
      searchData == IF IsSome(error) THEN <<>> ELSE CatalogSearchData(type)
      searchResults == CatalogResults(fuseResults, a.limit)
  IN  [tool |-> "search", variant |-> "catalog",
       query |-> a.query, type |-> a.type, limit |-> a.limit,
       pattern |-> SearchPattern("catalog", a.query),
       tournamentsResponse |-> tournamentsResponse,
       schoolsResponse |-> schoolsResponse, json |-> json, text |-> text,
       searched |-> [i \in DOMAIN searchData |->
                       [type |-> searchData[i].type, id |-> searchData[i].id]],
       ranked |-> [i \in DOMAIN fuseResults |->
                     [type |-> fuseResults[i].item.type, id |-> fuseResults[i].item.id,
                      score |-> fuseResults[i].score]],
       scores |-> [i \in DOMAIN searchResults |-> searchResults[i].score],
       answer |-> IF IsSome(error) THEN SearchFailed(error[1])
                  ELSE SearchCatalog(a.query, type, searchResults)]

\* The arguments with which a catalog search that fails is shown.
FailingArgs == {a \in CatalogArgs : a.query = QueryAbSchool /\ a.limit = Undefined}

\* search on the catalog server comes back from Promise.all of the two
\* fetches: a fetch that is rejected or not OK ends the search with an error,
\* and otherwise the search waits for tournamentsResponse.json().
SearchCatalogFetches ==
  /\ server = "catalog"
  /\ waiting > 0
  /\ waiting' = waiting - 1
  /\ \E tournamentsResponse \in Responses, schoolsResponse \in Responses :
       LET error == FetchError(tournamentsResponse, schoolsResponse)
       IN  IF IsSome(error)
           THEN /\ last = NoCall
                /\ \E a \in FailingArgs :
                     last' = CatalogCall(a, tournamentsResponse, schoolsResponse,
                                         "none", "none", error, <<>>)
                /\ UNCHANGED running
           ELSE /\ running' = running (+) SetToBag({[tool |-> "search", awaits |-> "json",
                                                     tournamentsResponse |-> tournamentsResponse,
                                                     schoolsResponse |-> schoolsResponse,
                                                     json |-> "none"]})
                /\ UNCHANGED last
  /\ UNCHANGED <<server, store, dir, lastFetch, connected>>

\* tournamentsResponse.json() settles: with a value, and the search waits for
\* schoolsResponse.text(), or with a rejection, which ends the search.
SearchCatalogParsesJson ==
  /\ \E h \in BagToSet(running), json \in JsonBodies :
       /\ h.awaits = "json"
       /\ IF json = "rejects"
          THEN /\ last = NoCall
               /\ \E a \in FailingArgs :
                    last' = CatalogCall(a, h.tournamentsResponse, h.schoolsResponse,
                                        json, "none", BodyError(json, "none", "all"),
                                        <<>>)
               /\ Ends(h)
          ELSE /\ Goes(h, [h EXCEPT !.awaits = "text", !.json = json])
               /\ UNCHANGED last
  /\ UNCHANGED <<server, store, dir, waiting, lastFetch, connected>>

\* schoolsResponse.text() settles, and the search runs to its answer: the
\* search data are built, Fuse searches them for the normalized query and the
\* results are cut to the limit.
SearchCatalogReadsText ==
  /\ last = NoCall
  /\ \E h \in BagToSet(running), text \in TextBodies :
       /\ h.awaits = "text"
       /\ Ends(h)
       /\ \E a \in CatalogArgs :
            LET type == IF IsSome(a.type) THEN a.type[1] ELSE "all"
                error == BodyError(h.json, text, type)
            IN  IF IsSome(error)
                THEN /\ a \in FailingArgs
                     /\ last' = CatalogCall(a, h.tournamentsResponse, h.schoolsResponse,
                                            h.json, text, error, <<>>)
                ELSE /\ h.json = "notlist" => a \in FailingArgs
                     /\ \E fuseResults \in FuseSearch(CatalogSearchData(type),
                                                         CatalogThreshold) :
                          last' = CatalogCall(a, h.tournamentsResponse, h.schoolsResponse,
                                              h.json, text, Undefined, fuseResults)
  /\ UNCHANGED <<server, store, dir, waiting, lastFetch, connected>>

\* The call of the corpus search as it answers, after the loop: read is what
\* it has read (each id with the file as it was then), all what it has
\* collected.  The query and the limit are the request's from its arrival;
\* they are first used after the loop, and the model draws them there.
CorpusCall(a, listed, read, all, tournamentResults, teamResults) ==
  LET type == IF IsSome(a.type) THEN a.type[1] ELSE "both"
      ranked == CorpusRanked(tournamentResults, teamResults)
      sortedResults == CorpusResults(ranked, a.limit)
      searchData == all.tournaments \o all.teams
  IN  [tool |-> "search", variant |-> "corpus",
       query |-> a.query, type |-> a.type, limit |-> a.limit,
       pattern |-> SearchPattern("corpus", a.query),
       listed |-> listed, read |-> read,
       searched |-> [i \in DOMAIN searchData |->
                       [type |-> searchData[i].type, id |-> searchData[i].id]],
       ranked |-> [i \in DOMAIN ranked |->
                     [type |-> ranked[i].item.type, id |-> ranked[i].item.id,
                      score |-> ranked[i].score]],
       scores |-> [i \in DOMAIN sortedResults |-> sortedResults[i].score],
       answer |-> SearchCorpus(a.query, type, sortedResults)]

\* The corpus search answers: the two Fuse searches, the sort and the cut.
CorpusAnswers(type, listed, read, all) ==
  /\ last = NoCall
  /\ \E a \in CorpusArgs :
       /\ a.type = type
       /\ \E tournamentResults \in FuseSearch(all.tournaments, CorpusThreshold),
             teamResults \in FuseSearch(all.teams, CorpusThreshold) :
            last' = CorpusCall(a, listed, read, all, tournamentResults, teamResults)

\* search on the corpus server comes back from getAvailableTournaments with
\* the ids of the directory as it is now, and goes into the loop; with no id
\* it answers.  The type of the search is used in the loop and is drawn here.
SearchCorpusListsTournaments ==
  /\ server = "corpus"
  /\ waiting > 0
  /\ waiting' = waiting - 1
  /\ \E type \in {a.type : a \in CorpusArgs} :
       LET tournaments == GetAvailableTournaments(store, dir)
       IN  IF tournaments = <<>>
           THEN /\ CorpusAnswers(type, tournaments, <<>>, NothingCollected)
                /\ UNCHANGED running
           ELSE /\ running' = running (+) SetToBag({[tool |-> "search", awaits |-> "record",
                                                     type |-> type, listed |-> tournaments,
                                                     read |-> <<>>,
                                                     all |-> NothingCollected]})
                /\ UNCHANGED last
  /\ UNCHANGED <<server, store, dir, lastFetch, connected>>

\* A turn of the loop of the corpus search: loadInterpreter comes back for the
\* next id, with the file as it is now, and what it gives is collected or the
\* record is skipped; after the last id the search answers.
SearchCorpusLoadsRecord ==
  /\ \E h \in BagToSet(running) :
       /\ h.awaits = "record"
       /\ LET tournamentId == h.listed[Len(h.read) + 1]
              read == Append(h.read, [id |-> tournamentId, file |-> store[tournamentId]])
              all == Collected(h.all, store, tournamentId,
                               IF IsSome(h.type) THEN h.type[1] ELSE "both")
          IN  IF Len(read) = Len(h.listed)
              THEN /\ CorpusAnswers(h.type, h.listed, read, all)
                   /\ Ends(h)
              ELSE /\ Goes(h, [h EXCEPT !.read = read, !.all = all])
                   /\ UNCHANGED last
  /\ UNCHANGED <<server, store, dir, waiting, lastFetch, connected>>

\* list_tournaments.
CallListTournaments ==
  /\ waiting > 0
  /\ last = NoCall
  /\ last' = [tool |-> "list_tournaments", answer |-> ListTournaments(store, dir)]
  /\ waiting' = waiting - 1
  /\ UNCHANGED <<server, store, dir, running, lastFetch, connected>>

SearchNext ==
  \/ RequestArrives
  \/ ChangeSearchedRecord
  \/ HandleRequestFails
  \/ SearchCatalogFetches
  \/ SearchCatalogParsesJson
  \/ SearchCatalogReadsText
  \/ SearchCorpusListsTournaments
  \/ SearchCorpusLoadsRecord
  \/ CallListTournaments
  \/ Respond

SearchSpec == SearchInit /\ [][SearchNext]_vars

\* ---- the listing and the resources, with the records changing

\* The URIs of the resource reads: a record's, an unknown id's, the bare
\* prefix, and URIs that do not start with the prefix.
Uris ==
  {<<ResultsPrefix, id>> : id \in Ids \cup {"t9"}}
  \cup {<<ResultsPrefix>>, <<"duosmium://other/", "t1">>, <<"file:///", "t1">>,
        <<"x", ResultsPrefix, "t1">>}

StoreInit ==
  /\ server = "catalog"
  /\ store \in FileStores
  /\ dir \in Dirs
  /\ waiting = 0
  /\ last = NoCall
  /\ lastFetch = NoCall
  /\ running = EmptyBag
  /\ connected = FALSE

\* resources/list.
ListResourcesRequest ==
  /\ waiting > 0
  /\ last = NoCall
  /\ last' = [tool |-> "resources/list", answer |-> ListResources(store, dir)]
  /\ waiting' = waiting - 1
  /\ UNCHANGED <<server, store, dir, lastFetch, connected, running>>

\* resources/read.
ReadResourceRequest ==
  /\ waiting > 0
  /\ last = NoCall
  /\ \E uri \in Uris :
       /\ last' = [tool |-> "resources/read", uri |-> uri,
                   read |-> ReadResource(store, uri).read,
                   answer |-> ReadResource(store, uri).answer]
       /\ waiting' = waiting - 1
       /\ UNCHANGED <<server, store, dir, lastFetch, connected, running>>

StoreNext ==
  \/ RequestArrives
  \/ ChangeRecord
  \/ HandleRequestFails
  \/ CallListTournaments
  \/ ListResourcesRequest
  \/ ReadResourceRequest
  \/ CallGetTournamentInfo
  \/ CallFetch
  \/ Respond

StoreSpec == StoreInit /\ [][StoreNext]_vars

\* ---------------------------------------------------------------- claims

\* The call being answered is a call of one of the given tools on a record that
\* loads, and teams is the Interpreter's team list of that record.
AnsweringOn(tools) ==
  /\ last # NoCall
  /\ last.tool \in tools
  /\ store[last.tournamentId].status = "ok"
TeamsOfCall == store[last.tournamentId].interp.teams
PlacingsOfCall == store[last.tournamentId].interp.placings

\* A line of the rankings carries a marker other than DQ and Exhibition.
MarkedTie(line) ==
  \E k \in DOMAIN line.status : line.status[k] \notin {"DQ", "Exhibition"}

\* C2 as stated: in the answer of get_tournament_rankings two teams with equal
\* total points that share a rank (A: 40, B: 40, both rank 1) are both marked
\* as tie.
C2_EqualTotalsMarkedTie ==
  AnsweringOn({"get_tournament_rankings"}) =>
    \A i, j \in DOMAIN last.answer.f.rankings :
      ( /\ i # j
        /\ last.answer.f.rankings[i].points = last.answer.f.rankings[j].points
        /\ last.answer.f.rankings[i].rank = last.answer.f.rankings[j].rank )
        => MarkedTie(last.answer.f.rankings[i]) /\ MarkedTie(last.answer.f.rankings[j])

\* C6 as stated: get_tournament_info called after fetch on the same id, both on
\* a record that loads, shows the title that fetch's output holds.
C6_TitlesConsistent ==
  ( /\ AnsweringOn({"get_tournament_info"})
    /\ lastFetch # NoCall
    /\ lastFetch.tournamentId = last.tournamentId )
  => lastFetch.answer.f.title = Some(last.answer.f.tournament)

\* The Interpreter has listed the teams of the record in rank order.
InRankOrder(teams) ==
  \A i, j \in DOMAIN teams : i < j => teams[i].rank <= teams[j].rank

TournamentTools ==
  {"get_team_placement", "get_tournament_rankings", "get_tournament_info",
   "get_tournament_teams", "get_team_all_placements", "fetch"}

\* C8: a tool called on an id without a record file answers the normal text
\* 'Tournament "<id>" not found', whatever the team and event arguments; on a
\* record that fails to read, parse or interpret it throws InternalError with
\* the failure's message.
C8_LoadFailures ==
  (last # NoCall /\ last.tool \in TournamentTools) =>
    LET status == store[last.tournamentId].status
    IN  /\ status = "missing" =>
             last.answer = Text("TournamentNotFound",
                                [tournamentId |-> last.tournamentId])
        /\ status \in {"unreadable", "badyaml", "badrep"} =>
             /\ last.answer.kind = "error"
             /\ last.answer.code = "InternalError"
             /\ last.answer.f.message =
                  (CASE status = "unreadable" -> "EACCES: permission denied"
                     [] status = "badyaml"    -> "YAMLException"
                     [] OTHER                 -> "TypeError")
        /\ status = "ok" => last.answer.kind = "text"

\* get_team_placement with a team and an event on an id without a record file.
C8_Witness ==
  /\ last # NoCall
  /\ last.tool = "get_team_placement"
  /\ store[last.tournamentId].status = "missing"
  /\ last.teamId = <<"1">>
  /\ last.event = Some("E1")
  /\ last.answer.tmpl = "TournamentNotFound"

\* No team of the record has the identifier as its number or, ignoring case, in
\* its school name.
MatchesNoTeam(teams, teamId) ==
  \A i \in DOMAIN teams :
    /\ NumToString(teams[i].number) # teamId
    /\ ~(IsSome(teams[i].school)
         /\ Includes(ToLowerCase(teams[i].school[1]), ToLowerCase(teamId)))

\* C9: get_team_placement and get_team_all_placements on an existing tournament
\* with an identifier that matches no team answer the normal text 'Team "<id>"
\* not found in tournament "<tournament>"' and throw nothing.
C9_TeamNotFound ==
  ( /\ AnsweringOn({"get_team_placement", "get_team_all_placements"})
    /\ MatchesNoTeam(TeamsOfCall, last.teamId) )
  => last.answer = Text("TeamNotFound",
                        [teamId |-> last.teamId, tournamentId |-> last.tournamentId])

\* An identifier that matches none of three teams.
C9_Witness ==
  /\ AnsweringOn({"get_team_all_placements"})
  /\ Len(TeamsOfCall) = 3
  /\ MatchesNoTeam(TeamsOfCall, last.teamId)
  /\ last.answer.tmpl = "TeamNotFound"

\* What C10 says of the answer of get_team_placement on a team that resolves,
\* where omitted tells whether the call counts as one without an event: the
\* answer is about a team the identifier matches; without an event it is that
\* team's overall rank, total points and DQ / exhibition status; with an event
\* it is the place, tie flag and points of the one placing of that team in that
\* event, and a placement-not-found answer when there is no such placing.
PlacementAnswerIsRight(omitted) ==
  ( /\ AnsweringOn({"get_team_placement"})
    /\ ~MatchesNoTeam(TeamsOfCall, last.teamId) )
  => \E t \in DOMAIN TeamsOfCall :
       LET team == TeamsOfCall[t]
           own == {k \in DOMAIN PlacingsOfCall :
                     /\ PlacingsOfCall[k].team = team.number
                     /\ last.event = Some(PlacingsOfCall[k].event)}
           a == last.answer
       IN  /\ ~MatchesNoTeam(<<team>>, last.teamId)
           /\ a.kind = "text"
           /\ a.f.number = team.number
           /\ a.f.school = team.school
           /\ omitted =>
                /\ a.tmpl = "Overall"
                /\ a.f.rank = team.rank
                /\ a.f.points = team.points
                /\ (a.f.disqualified = "Yes") = team.disqualified
                /\ (a.f.exhibition = "Yes") = team.exhibition
           /\ (~omitted /\ own = {}) =>
                /\ a.tmpl = "NoPlacement"
                /\ a.f.event = last.event[1]
           /\ (~omitted /\ own # {}) =>
                /\ Cardinality(own) = 1
                /\ a.tmpl = "Placement"
                /\ \A k \in own :
                     /\ a.f.event = PlacingsOfCall[k].event
                     /\ a.f.placeText = PlaceText(PlacingsOfCall[k])
                     /\ a.f.tieText = TieText(PlacingsOfCall[k])
                     /\ a.f.points = PointsText(PlacingsOfCall[k])

\* C10 as stated: the overall answer is given exactly when the event argument
\* is omitted; any event that is given, the empty string too, is answered with
\* the placing of the pair or with a placement-not-found answer.
C10_AnyGivenEvent == PlacementAnswerIsRight(last.event = Undefined)

\* C10 as amended: the overall answer is given when the event argument is
\* omitted or the empty string; a non-empty event is answered with the placing
\* of the (team, event) pair, or with a placement-not-found answer when the pair
\* has no placing.
C10_PlacementOfPair ==
  PlacementAnswerIsRight(last.event = Undefined \/ last.event = Some(""))

\* The placing of team 2 in E1 is asked for while team 1 has a placing in E1
\* too.
C10_Witness ==
  /\ AnsweringOn({"get_team_placement"})
  /\ last.teamId = <<"2">>
  /\ last.event = Some("E1")
  /\ last.answer.tmpl = "Placement"
  /\ last.answer.f.number = 2
  /\ \E k \in DOMAIN PlacingsOfCall :
       PlacingsOfCall[k].team = 1 /\ PlacingsOfCall[k].event = "E1"

\* The teams of the record that the identifier matches, by position.
MatchingTeams(teams, teamId) ==
  {i \in DOMAIN teams : ~MatchesNoTeam(<<teams[i]>>, teamId)}

\* C11: the team a tool resolves is one whose number is the identifier or whose
\* school name contains it, ignoring case, and among several matching teams it
\* is the first in the order of the record's team list; so the identifier and
\* the record determine the team.
C11_FirstMatchingTeam ==
  ( /\ AnsweringOn({"get_team_placement", "get_team_all_placements"})
    /\ MatchingTeams(TeamsOfCall, last.teamId) # {} )
  => LET first == MinOf(MatchingTeams(TeamsOfCall, last.teamId))
     IN  /\ last.answer.kind = "text"
         /\ last.answer.tmpl # "TeamNotFound"
         /\ last.answer.f.number = TeamsOfCall[first].number
         /\ last.answer.f.school = TeamsOfCall[first].school

\* 'B' is in the school names of two teams, and the first of them in team order
\* has the greater number.
C11_Witness ==
  /\ AnsweringOn({"get_team_all_placements"})
  /\ last.teamId = <<"B">>
  /\ Cardinality(MatchingTeams(TeamsOfCall, last.teamId)) >= 2
  /\ \E i, j \in MatchingTeams(TeamsOfCall, last.teamId) :
       /\ i < j
       /\ TeamsOfCall[i].number > TeamsOfCall[j].number
       /\ last.answer.f.number = TeamsOfCall[i].number

\* The positions in interpreter.placings of the placings of a team number.
PlacingsOfTeam(number) ==
  {k \in DOMAIN PlacingsOfCall : PlacingsOfCall[k].team = number}

\* The i-th least element of a set of numbers.
IthOf(S, i) == CHOOSE k \in S : Cardinality({j \in S : j <= k}) = i

\* The answer of get_team_all_placements lists every placing of the resolved
\* team, the dropped ones too and flagged, once each and in the order of
\* interpreter.placings.
AllPlacementsListed ==
  ( /\ AnsweringOn({"get_team_all_placements"})
    /\ MatchingTeams(TeamsOfCall, last.teamId) # {} )
  => LET own == PlacingsOfTeam(last.answer.f.number)
     IN  /\ (own = {}) = (last.answer.tmpl = "NoPlacements")
         /\ own # {} =>
              /\ last.answer.tmpl = "AllPlacements"
              /\ last.answer.f.count = Cardinality(own)
              /\ Len(last.answer.f.placements) = Cardinality(own)
              /\ \A i \in 1..Cardinality(own) :
                   LET p == PlacingsOfCall[IthOf(own, i)]
                       line == last.answer.f.placements[i]
                   IN  /\ line.event = p.event
                       /\ (line.dropped = " [DROPPED]") = p.dropped
                       /\ line.placeText = PlaceText(p)
                       /\ line.points = PointsText(p)

\* The answer of get_team_all_placements lists the placings by event name
\* ascending (the records of the model have the events E1 and E2).
OrderedByEventName ==
  ( /\ AnsweringOn({"get_team_all_placements"})
    /\ last.answer.tmpl = "AllPlacements" )
  => \A i, j \in DOMAIN last.answer.f.placements :
       i < j => ~( /\ last.answer.f.placements[i].event = "E2"
                   /\ last.answer.f.placements[j].event = "E1" )

\* C12 as stated: get_team_all_placements returns every placing of the resolved
\* team, dropped ones flagged, ordered by event name.
C12_OrderedByEventName == AllPlacementsListed /\ OrderedByEventName

\* C12 as amended: get_team_all_placements returns every placing of the
\* resolved team, dropped ones flagged as dropped, in the order in which
\* interpreter.placings holds them; the handler does not sort them.
C12_AllPlacementsInRecordOrder == AllPlacementsListed

\* The record lists the team's E2 placing before its dropped E1 placing, and
\* the answer has both in that order.
C12_Witness ==
  /\ AnsweringOn({"get_team_all_placements"})
  /\ last.answer.tmpl = "AllPlacements"
  /\ Len(last.answer.f.placements) = 2
  /\ last.answer.f.placements[1].event = "E2"
  /\ last.answer.f.placements[2].event = "E1"
  /\ last.answer.f.placements[2].dropped = " [DROPPED]"

\* C13: the title fetch reports is the record's name when it has a non-empty
\* one; otherwise 'Science Olympiad National Tournament' for Nationals,
\* '<state> Science Olympiad State Tournament' for States with sCA written
\* SoCal and nCA written NorCal, '<location> Regional Tournament' for
\* Regionals, '<location> Invitational' for Invitational, and no title for any
\* other level.
C13_TournamentTitle ==
  AnsweringOn({"fetch"}) =>
    LET t == store[last.tournamentId].interp.tournament
        title == last.answer.f.title
        named == t.name # Undefined /\ t.name # Some("")
    IN  /\ named => title = Some(<<t.name[1]>>)
        /\ (~named /\ t.level = "Nationals") =>
             title = Some(<<"Science Olympiad National Tournament">>)
        /\ (~named /\ t.level = "States") =>
             /\ t.state = "sCA" =>
                  title = Some(<<"SoCal", " Science Olympiad State Tournament">>)
             /\ t.state = "nCA" =>
                  title = Some(<<"NorCal", " Science Olympiad State Tournament">>)
             /\ t.state \notin {"sCA", "nCA"} =>
                  title = Some(<<t.state, " Science Olympiad State Tournament">>)
        /\ (~named /\ t.level = "Regionals") =>
             title = Some(<<t.location, " Regional Tournament">>)
        /\ (~named /\ t.level = "Invitational") =>
             title = Some(<<t.location, " Invitational">>)
        /\ (~named /\ t.level \notin {"Nationals", "States", "Regionals", "Invitational"}) =>
             title = Undefined

\* fetch on an unnamed state tournament of nCA.
C13_Witness ==
  /\ AnsweringOn({"fetch"})
  /\ store[last.tournamentId].interp.tournament.name = Undefined
  /\ store[last.tournamentId].interp.tournament.level = "States"
  /\ store[last.tournamentId].interp.tournament.state = "nCA"
  /\ last.answer.f.title = Some(<<"NorCal", " Science Olympiad State Tournament">>)

\* A search of the given variant is being answered.
Searching(variant) ==
  /\ last # NoCall
  /\ last.tool = "search"
  /\ last.variant = variant

\* The limit a search call asks for: the argument, or the tool's default.
RequestedLimit(call) ==
  IF IsSome(call.limit) THEN call.limit[1]
  ELSE IF call.variant = "catalog" THEN DefaultCatalogLimit ELSE DefaultCorpusLimit

\* The results of a search call are in ascending order of score, within the
\* variant's threshold, and the best-scored of what the search has ranked.
RankedWithinThreshold(call) ==
  /\ \A i, j \in DOMAIN call.scores : i < j => call.scores[i] <= call.scores[j]
  /\ \A i \in DOMAIN call.scores :
       call.scores[i] <= (IF call.variant = "catalog"
                          THEN CatalogThreshold ELSE CorpusThreshold)
  /\ Len(call.scores) <= Len(call.ranked)
  /\ \A i \in DOMAIN call.scores :
       /\ call.scores[i] = call.ranked[i].score
       /\ \A j \in DOMAIN call.ranked : i < j => call.scores[i] <= call.ranked[j].score

\* C14 as stated: in both search variants the results are in ascending order of
\* score, within the threshold and the best-scored of the matches, and where
\* there are results they are at most as many as the requested limit.
C14_RankedAtMostLimit ==
  (last # NoCall /\ last.tool = "search" /\ last.answer.kind = "text") =>
    /\ RankedWithinThreshold(last)
    /\ Len(last.scores) > 0 => Len(last.scores) <= RequestedLimit(last)

\* Two queries have the same words, up to letter case and up to 'team' standing
\* for 'school'.
SameUpToCaseAndSynonym(q1, q2) ==
  LET w1 == Words(ToLowerCase(q1))
      w2 == Words(ToLowerCase(q2))
  IN  /\ Len(w1) = Len(w2)
      /\ \A i \in DOMAIN w1 :
           \/ w1[i] = w2[i]
           \/ {w1[i], w2[i]} = {WordTeam, WordSchool}

\* Every query that differs from the query of the search being answered only in
\* letter case or in 'team' for 'school' is handed to Fuse as the same pattern.
EquivalentQueriesSamePattern ==
  \A query \in Queries :
    SameUpToCaseAndSynonym(query, last.query) =>
      SearchPattern(last.variant, query) = last.pattern

\* C15 as stated: in the catalog search and in the corpus search, two queries
\* that differ only in letter case or in 'team' for 'school' are searched as
\* the same normalized pattern, and so have the same ranked results over the
\* same entries.
C15_BothSearchesNormalize ==
  \A variant \in {"catalog", "corpus"} :
    Searching(variant) => EquivalentQueriesSamePattern

\* C15 as amended: in the catalog search two queries that differ only in letter
\* case or in 'team' for 'school' are searched as the same normalized pattern,
\* and so have the same ranked results over the same catalog (the corpus search
\* hands the query to Fuse as it is).
C15_CatalogSearchNormalizes ==
  Searching("catalog") =>
    /\ EquivalentQueriesSamePattern
    /\ last.pattern = ToLowerCase(last.pattern)
    /\ \A i \in DOMAIN Words(last.pattern) : Words(last.pattern)[i] # WordTeam

\* 'Ab team' is searched in the catalog, as 'ab school', and finds entries.
C15_Witness ==
  /\ Searching("catalog")
  /\ last.query = SchoolAb \o Space \o WordTeam
  /\ last.pattern = QueryAbSchool
  /\ last.answer.tmpl = "Found"
  /\ last.answer.f.count >= 2

\* C16: a catalog search in which a fetch is rejected or answered with a status
\* that is not OK throws InternalError 'Search failed: ...' with the message of
\* the fetch failure, whatever the type, and returns no results; with both
\* fetches OK it throws 'Search failed: ...' when a body cannot be read or
\* used, and returns a text otherwise.
C16_FetchFailureFailsSearch ==
  Searching("catalog") =>
    LET t == last.tournamentsResponse
        s == last.schoolsResponse
        failed == t.rejected \/ s.rejected \/ t.status # 200 \/ s.status # 200
        type == IF IsSome(last.type) THEN last.type[1] ELSE "all"
        unusable == \/ last.json = "rejects"
                    \/ last.text = "rejects"
                    \/ last.json = "notlist" /\ type # "school"
    IN  /\ failed =>
             /\ last.answer.kind = "error"
             /\ last.answer.code = "InternalError"
             /\ last.answer.tmpl = "Search failed"
             /\ last.answer.f.message \in
                  {<<"fetch failed">>,
                   <<"Failed to fetch tournaments: ", t.status>>,
                   <<"Failed to fetch schools: ", s.status>>}
             /\ (~t.rejected /\ ~s.rejected /\ t.status = 200) =>
                  last.answer.f.message = <<"Failed to fetch schools: ", s.status>>
             /\ last.json = "none" /\ last.text = "none"
             /\ last.ranked = <<>> /\ last.scores = <<>>
        /\ (~failed /\ unusable) =>
             /\ last.answer.kind = "error"
             /\ last.answer.code = "InternalError"
             /\ last.answer.tmpl = "Search failed"
             /\ last.scores = <<>>
        /\ (~failed /\ ~unusable) => last.answer.kind = "text"

\* A search of type tournament whose school fetch is answered 500.
C16_Witness ==
  /\ Searching("catalog")
  /\ last.type = Some("tournament")
  /\ last.tournamentsResponse = Response(200)
  /\ last.schoolsResponse = Response(500)
  /\ last.answer.kind = "error"

\* The record of the id is one the corpus search being answered has read, and
\* it read the given file.
ReadBySearch(id, file) ==
  \E k \in DOMAIN last.read : last.read[k] = [id |-> id, file |-> file]

\* The entries the corpus search being answered owes to what it has read: of
\* every record that loaded when it was read, the tournament and the teams, as
\* the type asks.
EntriesOfLoaded ==
  LET type == IF IsSome(last.type) THEN last.type[1] ELSE "both"
      loaded == {k \in DOMAIN last.read : last.read[k].file.status = "ok"}
  IN  (IF type \in {"tournament", "both"}
       THEN {[type |-> "tournament", id |-> <<last.read[k].id>>] : k \in loaded}
       ELSE {})
      \cup
      (IF type \in {"team", "both"}
       THEN UNION {{[type |-> "team",
                     id |-> <<last.read[k].id, ":">>
                            \o NumToString(last.read[k].file.interp.teams[i].number)] :
                      i \in DOMAIN last.read[k].file.interp.teams} : k \in loaded}
       ELSE {})

\* C17: a corpus search returns a text whatever records fail to load; it reads
\* every id of the listing, in order, also after one that fails; what it
\* searches are the entries of exactly the records that loaded when it read
\* them; and its results are what Fuse matched among them, in order, all of
\* them up to the limit.
C17_FailedRecordsSkipped ==
  Searching("corpus") =>
    /\ last.answer.kind = "text"
    /\ Len(last.read) = Len(last.listed)
    /\ \A k \in DOMAIN last.read : last.read[k].id = last.listed[k]
    /\ {last.searched[i] : i \in DOMAIN last.searched} = EntriesOfLoaded
    /\ \A i \in DOMAIN last.ranked :
         [type |-> last.ranked[i].type, id |-> last.ranked[i].id] \in EntriesOfLoaded
    /\ Len(last.scores) =
         (IF RequestedLimit(last) > 0
          THEN (IF RequestedLimit(last) < Len(last.ranked)
                THEN RequestedLimit(last) ELSE Len(last.ranked))
          ELSE Len(last.scores))
    /\ Len(last.scores) <= Len(last.ranked)
    /\ Len(last.scores) = 0 <=> last.answer.tmpl = "NoneFound"
    /\ Len(last.scores) > 0 =>
         /\ last.answer.tmpl = "SearchResults"
         /\ Len(last.answer.f.results) = Len(last.scores)
         /\ \A i \in DOMAIN last.answer.f.results :
              last.answer.f.results[i] =
                [type |-> last.ranked[i].type, id |-> last.ranked[i].id]

\* The search listed both ids and read the record of t1, which the Interpreter
\* rejected, went on to the record of t2, and has its team among the results,
\* which the limit has cut.
C17_Witness ==
  /\ Searching("corpus")
  /\ last.listed = <<"t1", "t2">>
  /\ ReadBySearch("t1", [status |-> "badrep"])
  /\ ReadBySearch("t2", OkFile(SchoolInterp))
  /\ last.limit = Some(1)
  /\ Len(last.ranked) = 2
  /\ last.answer.tmpl = "SearchResults"
  /\ last.answer.f.results = <<[type |-> "team", id |-> <<"t2", ":", "7">>]>>

\* C19 as stated: no step of handling a request changes the in-memory state of
\* the server that outlives the request (the transport this.server holds).
C19_InMemoryStateUnchanged == [][connected' = connected]_vars

\* C24 as stated: the text of the JSON object fetch returns is the derived
\* record: it holds every team with the rank and the total the Interpreter
\* gives it.
C24_FetchDerivedRecord ==
  AnsweringOn({"fetch"}) =>
    /\ last.answer.tmpl = "Json"
    /\ \A i \in DOMAIN TeamsOfCall :
         \E k \in DOMAIN last.answer.f.text.Teams :
           LET t == last.answer.f.text.Teams[k]
           IN  /\ t.number = TeamsOfCall[i].number
               /\ {"rank", "points"} \subseteq DOMAIN t
               /\ t.rank = TeamsOfCall[i].rank
               /\ t.points = TeamsOfCall[i].points

\* C24 as amended: fetch on an existing record returns a JSON object with the
\* id, the title of tournamentTitle when there is one, the record as yaml.load
\* gives it (the file's own sections, nothing derived: no rank, no total) and
\* the URL 'https://www.duosmium.org/results/<id>'.
C24_FetchRawRecord ==
  AnsweringOn({"fetch"}) =>
    /\ last.answer.tmpl = "Json"
    /\ DOMAIN last.answer.f = {"id", "title", "text", "url"}
    /\ last.answer.f.id = last.tournamentId
    /\ last.answer.f.url = <<"https://www.duosmium.org/results/", last.tournamentId>>
    /\ last.answer.f.text = store[last.tournamentId].data
    /\ \A k \in DOMAIN last.answer.f.text.Teams :
         DOMAIN last.answer.f.text.Teams[k] = {"number", "school"}
    /\ (last.answer.f.title = Undefined) =
         ( /\ store[last.tournamentId].data.Tournament.name \in {Undefined, Some("")}
           /\ store[last.tournamentId].data.Tournament.level \notin
                {"Nationals", "States", "Regionals", "Invitational"} )

\* fetch on a record of three teams that the Interpreter ranks.
C24_Witness ==
  /\ AnsweringOn({"fetch"})
  /\ Len(TeamsOfCall) = 3
  /\ TeamsOfCall[3].rank = 3
  /\ Len(last.answer.f.text.Teams) = 3
  /\ IsSome(last.answer.f.title)

\* C25: a team number equal to the identifier has no priority: when the first
\* team that matches does so by its school name and a later team has the
\* identifier as its number, the earlier team is the one resolved; the empty
\* identifier resolves to the first team that has a school name, and to no
\* team when no team has one.
C25_NoNumberPriority ==
  AnsweringOn({"get_team_placement", "get_team_all_placements"}) =>
    /\ \A i, j \in DOMAIN TeamsOfCall :
         ( /\ i < j
           /\ NumToString(TeamsOfCall[j].number) = last.teamId
           /\ IsSome(TeamsOfCall[i].school)
           /\ Includes(ToLowerCase(TeamsOfCall[i].school[1]), ToLowerCase(last.teamId))
           /\ \A k \in 1..(i - 1) : MatchesNoTeam(<<TeamsOfCall[k]>>, last.teamId) )
         => /\ last.answer.tmpl # "TeamNotFound"
            /\ last.answer.f.number = TeamsOfCall[i].number
            /\ last.answer.f.number # TeamsOfCall[j].number
    /\ last.teamId = <<>> =>
         LET schooled == {i \in DOMAIN TeamsOfCall : IsSome(TeamsOfCall[i].school)}
         IN  /\ schooled = {} => last.answer.tmpl = "TeamNotFound"
             /\ schooled # {} =>
                  /\ last.answer.tmpl # "TeamNotFound"
                  /\ last.answer.f.number = TeamsOfCall[MinOf(schooled)].number

\* '1' is asked for; team 12 of school 'b1' comes before team 1, and is the one
\* resolved.
C25_Witness ==
  /\ AnsweringOn({"get_team_placement"})
  /\ last.teamId = <<"1">>
  /\ Len(TeamsOfCall) >= 2
  /\ TeamsOfCall[1].number = 12
  /\ TeamsOfCall[1].school = Some(SchoolB1)
  /\ \E j \in 2..Len(TeamsOfCall) : TeamsOfCall[j].number = 1
  /\ last.answer.f.number = 12

\* The search being answered has a limit and is answered with a text; the
\* ranking is what the search has before slice(0, limit).
CutOfRanking ==
  /\ last # NoCall
  /\ last.tool = "search"
  /\ IsSome(last.limit)
  /\ last.answer.kind = "text"

\* C30: with limit 0 a search answers that nothing was found, with a negative
\* limit -k it returns all matches but the k last of the ranking, and with a
\* positive limit the first min(limit, matches) of the ranking.
C30_SliceOfRanking ==
  CutOfRanking =>
    LET n == Len(last.ranked)
        l == last.limit[1]
        k == IF l > 0 THEN (IF l < n THEN l ELSE n)
             ELSE IF l = 0 THEN 0
             ELSE (IF n + l > 0 THEN n + l ELSE 0)
    IN  /\ last.scores = [i \in 1..k |-> last.ranked[i].score]
        /\ k = 0 => last.answer.tmpl = "NoneFound"
        /\ k > 0 =>
             /\ last.answer.tmpl \in {"Found", "SearchResults"}
             /\ last.answer.f.count = k
             /\ Len(last.answer.f.results) = k
             /\ \A i \in 1..k :
                  /\ last.answer.f.results[i].id = last.ranked[i].id
                  /\ last.answer.f.results[i].type = last.ranked[i].type

\* A catalog search with limit -1 whose ranking has four entries: three are
\* returned.
C30_Witness ==
  /\ CutOfRanking
  /\ last.variant = "catalog"
  /\ last.limit = Some(0 - 1)
  /\ Len(last.ranked) = 4
  /\ Len(last.scores) = 3

\* A request of the given kind is being answered.
Answering(tool) == last # NoCall /\ last.tool = tool

\* The step in which a handler comes back from its read, or from the last of
\* its reads, with its answer.
Handled ==
  /\ last.tool = "none"
  /\ last'.tool # "none"

\* The ids of the names in the directory that end in '.yaml', and those of them
\* that come before an id in the order of the strings.
ListedNames == IF dir.readable THEN ReadDir(store, dir).files ELSE <<>>
IdsInDirectory ==
  {ListedNames[i][1] : i \in {k \in DOMAIN ListedNames :
                                /\ Len(ListedNames[k]) >= 6
                                /\ SubSeq(ListedNames[k], Len(ListedNames[k]) - 4,
                                          Len(ListedNames[k])) = DotYaml}}
ExactlyTheIdsAscending(ids) ==
  /\ {ids[i] : i \in DOMAIN ids} = IdsInDirectory
  /\ Len(ids) = Cardinality(IdsInDirectory)
  /\ \A i, j \in DOMAIN ids : i < j => IdRank(ids[i]) < IdRank(ids[j])

\* What C21 asks of an answer, with the files as they are when the handler
\* comes back from its read.
C21_AnswerAgrees ==
  /\ (Answering("get_tournament_info") \/ Answering("fetch")) =>
       LET file == store[last.tournamentId]
       IN  /\ file.status = "missing" => last.answer.tmpl = "TournamentNotFound"
           /\ file.status \in {"unreadable", "badyaml", "badrep"} =>
                last.answer.kind = "error"
           /\ (file.status = "ok" /\ last.tool = "fetch") =>
                /\ last.answer.tmpl = "Json"
                /\ last.answer.f.text = file.data
           /\ (file.status = "ok" /\ last.tool = "get_tournament_info") =>
                /\ last.answer.tmpl = "Info"
                /\ last.answer.f.teamCount = Len(file.interp.teams)
                /\ last.answer.f.tournament =
                     IF Truthy(file.interp.tournament.name)
                     THEN <<file.interp.tournament.name[1]>> ELSE <<last.tournamentId>>
  /\ Answering("list_tournaments") =>
       {last.answer.f.tournaments[i] : i \in DOMAIN last.answer.f.tournaments}
         = IdsInDirectory

\* C21: nothing is cached: whatever was answered before and however the record
\* files have changed since, an answer is derived from the record as it is when
\* the request is handled: a deleted record is not found, a created or
\* rewritten one is answered with its present content, and the listing has the
\* ids of the files present.
C21_AnswersFromCurrentRecords == [][Handled => C21_AnswerAgrees']_vars

\* fetch showed the record t1 with its three teams; the record was rewritten
\* since and get_tournament_info now shows its one team.
C21_Witness ==
  /\ Answering("get_tournament_info")
  /\ last.tournamentId = "t1"
  /\ lastFetch # NoCall
  /\ lastFetch.tournamentId = "t1"
  /\ lastFetch.answer.tmpl = "Json"
  /\ Len(lastFetch.answer.f.text.Teams) = 3
  /\ store["t1"].status = "ok"
  /\ Len(store["t1"].interp.teams) = 1
  /\ last.answer.tmpl = "Info"
  /\ last.answer.f.teamCount = 1

\* What C22 asks of an answer, with the files as they are when the handler
\* comes back from its read.
C22_ExactlyIdsInBoth ==
  /\ (Answering("list_tournaments") /\ dir.readable) =>
       /\ ExactlyTheIdsAscending(last.answer.f.tournaments)
       /\ last.answer.f.count = Cardinality(IdsInDirectory)
  /\ (Answering("resources/list") /\ dir.readable) =>
       LET resources == last.answer.f.resources
       IN  /\ Len(resources) = Cardinality(IdsInDirectory)
           /\ ExactlyTheIdsAscending([i \in DOMAIN resources |-> resources[i].uri[2]])

\* C22 as stated: list_tournaments and the resource listing both return
\* exactly the ids of the files whose name ends in '.yaml', in ascending order:
\* as many entries as ids, entry i being the id i.
C22_BothListingsExactlyIds == [][Handled => C22_ExactlyIdsInBoth']_vars

\* What C22 asks of an answer, with the files as they are when the handler
\* comes back from its read.
C22_IdsAfterTemplate ==
  /\ (Answering("list_tournaments") /\ dir.readable) =>
       /\ last.answer.tmpl = "AvailableTournaments"
       /\ ExactlyTheIdsAscending(last.answer.f.tournaments)
       /\ last.answer.f.count = Cardinality(IdsInDirectory)
  /\ (Answering("resources/list") /\ dir.readable) =>
       LET resources == last.answer.f.resources
       IN  /\ Len(resources) = Cardinality(IdsInDirectory) + 1
           /\ resources[1].uri = <<ResultsPrefix, "{id}">>
           /\ ExactlyTheIdsAscending([i \in 1..(Len(resources) - 1) |->
                                        resources[i + 1].uri[2]])
           /\ \A i \in 2..Len(resources) :
                /\ resources[i].uri[1] = ResultsPrefix
                /\ resources[i].name = <<"Science Olympiad Results - ", resources[i].uri[2]>>

\* C22 as amended: list_tournaments returns exactly the ids obtained by
\* stripping '.yaml' from the names that end in '.yaml', in ascending order,
\* with their number as the count; the resource listing holds first the entry
\* of the URI template 'duosmium://results/{id}', which stands for no file, and
\* after it one resource for each of those ids, in the same order.
C22_ListingsOfIds == [][Handled => C22_IdsAfterTemplate']_vars

\* The directory gives t2.yaml before t1.yaml, among names that do not end in
\* '.yaml'; the resources listed are the template, t1 and t2.
C22_Witness ==
  /\ Answering("resources/list")
  /\ dir = MixedDir
  /\ Len(ReadDir(store, dir).files) = 6
  /\ Len(last.answer.f.resources) = 3
  /\ last.answer.f.resources[2].uri = <<ResultsPrefix, "t1">>

\* What C23 asks of an answer, with the files as they are when the handler
\* comes back from its read.
C23_Verbatim ==
  Answering("resources/read") =>
    /\ last.uri[1] # ResultsPrefix =>
         /\ last.answer.kind = "error"
         /\ last.answer.code = "InvalidRequest"
         /\ last.answer.tmpl = "Invalid URI scheme. Expected duosmium://results/{id}"
         /\ last.read = <<>>
    /\ \A id \in Ids :
         (last.uri = <<ResultsPrefix, id>> /\ store[id].status \in {"ok", "badrep"}) =>
           /\ last.answer.kind = "contents"
           /\ last.answer.f.uri = last.uri
           /\ last.answer.f.mimeType = "application/x-yaml"
           /\ last.answer.f.text = Content(store[id])
           /\ last.answer.f.text.written
           /\ last.answer.f.text # YamlDump(YamlLoad(last.answer.f.text).data)
           /\ last.read = <<YamlName(id)>>

\* C23: the read of duosmium://results/<id>, for a record file that exists and
\* is YAML, returns the text of the file as it is written, not the parsed data
\* written out again, under the URI asked for; a URI that does not start with
\* 'duosmium://results/' is rejected with InvalidRequest and no file is read.
C23_ResourceReadVerbatim == [][Handled => C23_Verbatim']_vars

\* The record t1 is read as a resource.
C23_Witness ==
  /\ Answering("resources/read")
  /\ last.uri = <<ResultsPrefix, "t1">>
  /\ store["t1"].status = "ok"
  /\ last.answer.kind = "contents"
  /\ last.answer.f.text.data = store["t1"].data

\* C27: a failure to read the directory is never reported: list_tournaments
\* answers 'Available Tournaments (0)' with no id, the corpus search answers
\* that nothing was found, and list_tournaments never throws.
C27_DirectoryFailureSilent ==
  /\ Answering("list_tournaments") =>
       /\ last.answer.kind = "text"
       /\ ~dir.readable =>
            /\ last.answer.tmpl = "AvailableTournaments"
            /\ last.answer.f.count = 0
            /\ last.answer.f.tournaments = <<>>
  /\ (Searching("corpus") /\ ~dir.readable) =>
       /\ last.answer.kind = "text"
       /\ last.answer.tmpl = "NoneFound"
       /\ last.scores = <<>>

\* list_tournaments is answered while the directory cannot be read and both
\* record files are there.
C27_Witness ==
  /\ Answering("list_tournaments")
  /\ ~dir.readable
  /\ \A id \in Ids : store[id].status = "ok"
  /\ last.answer.f.count = 0

\* What C28 asks of an answer, with the files as they are when the handler
\* comes back from its read.
C28_ErrorOfRead ==
  (Answering("resources/read") /\ last.uri[1] = ResultsPrefix) =>
    LET id == IF Len(last.uri) >= 2 THEN last.uri[2] ELSE ""
        status == IF id \in Ids THEN store[id].status ELSE "missing"
    IN  /\ status = "missing" =>
             /\ last.answer.kind = "error"
             /\ last.answer.code = "InvalidRequest"
             /\ last.answer.tmpl = "Resource not found"
             /\ last.answer.f.id = id
        /\ status \in {"unreadable", "badyaml"} =>
             /\ last.answer.kind = "error"
             /\ last.answer.code = "InternalError"
             /\ last.answer.tmpl = "Failed to read resource"

\* C28: the read of a resource whose file is missing throws InvalidRequest
\* 'Resource not found: <id>'; any other failure of the read throws
\* InternalError.
C28_ResourceReadErrors == [][Handled => C28_ErrorOfRead']_vars

\* fetch showed the record t1; its file is gone since and t1 is read as a
\* resource.
C28_Witness ==
  /\ Answering("resources/read")
  /\ last.uri = <<ResultsPrefix, "t1">>
  /\ store["t1"].status = "missing"
  /\ lastFetch # NoCall
  /\ lastFetch.answer.tmpl = "Json"
  /\ last.answer.code = "InvalidRequest"

\* What C29 asks of an answer, with the files as they are when the handler
\* comes back from its read.
C29_NotReturned ==
  \A id \in Ids :
    ( /\ Answering("resources/read")
      /\ last.uri = <<ResultsPrefix, id>>
      /\ store[id].status = "badyaml" ) =>
        /\ last.read = <<YamlName(id)>>
        /\ last.answer.kind = "error"
        /\ last.answer.code = "InternalError"
        /\ last.answer.tmpl = "Failed to read resource"
        /\ last.answer.f = [message |-> "YAMLException"]

\* C29: the read of a resource parses the text it has read before it answers:
\* a file that exists and is not YAML gives InternalError with the parser's
\* message, and its text is not returned.
C29_UnparsableNotReturned == [][Handled => C29_NotReturned']_vars

\* t1, which is not YAML, is read as a resource.
C29_Witness ==
  /\ Answering("resources/read")
  /\ last.uri = <<ResultsPrefix, "t1">>
  /\ store["t1"].status = "badyaml"
  /\ last.answer.kind = "error"

====
